---- MODULE Spec2Model ----
(***************************************************************************)
(* Model of multiagent_dev.orchestrator.Orchestrator: the superstep run   *)
(* loop (run_task_async), per-agent serialised dispatch (_dispatch_async),*)
(* snapshot/resume of the workflow state, and the tool arbiter with its   *)
(* approval gate (execute_tool, execute_tool_with_approval,               *)
(* request_approval).                                                     *)
(***************************************************************************)
EXTENDS Integers, Sequences, FiniteSets, TLC

\* ------------------------------------------------------------------------
\* Bounds of the model
\* ------------------------------------------------------------------------

\* Largest max_steps passed to run_task / resume_task.
MaxBudget == 4

\* Largest number of messages one handle_message call returns.
MaxResponses == 3

\* Largest batch one superstep dispatches.
MaxBatch == 6

\* Fuel of the message-at-a-time reference count of a task's messages: no
\* run within the bounds handles more messages (the last batch starts below
\* MaxBudget and is at most MaxResponses times the batch before it).
FuelCap == MaxBudget * (MaxResponses + 1)

\* Largest number of arbiter calls made on one orchestrator.
MaxCalls == 1

\* Largest number of messages the proxy returns for one approval request.
MaxReplies == 2

\* ------------------------------------------------------------------------
\* Identifiers
\* ------------------------------------------------------------------------

\* Agent ids passed to register_agent.
Registered == {"a", "b"}

\* Recipient ids no agent was registered under.
Unregistered == {"x"}

AgentIds == Registered \cup Unregistered

\* The task handed to run_task.
TaskId == "t1"

TaskDescription == "start"

\* Contents of the messages an agent returns, by position in its answer.
ContentOf == <<"r1", "r2", "r3", "r4">>

\* Metadata an agent gives the messages it returns, by position in its answer.
MetadataOf ==
    <<[k \in {} |-> ""], [task_id |-> "t9"], [priority |-> "high"],
      [task_id |-> "t9", priority |-> "high"]>>

VARIABLES
    behaviour,          \* [Registered -> Seq(AgentIds)]: recipients of each agent's answer
    initial_agent_id,   \* UserTask.initial_agent_id
    pc,                 \* "idle" | "loop" | "gather" | "returned" | "raised"
    phase,              \* "none" | "run" | "resumed"
    max_steps,          \* max_steps of the call in progress
    first_budget,       \* max_steps of the first run_task call
    queue,              \* Orchestrator._queue
    history,            \* local `history` of run_task_async
    processed,          \* local `processed` of run_task_async
    batch,              \* local `batch` of the superstep in progress
    status,             \* per batch index: position of its _dispatch_async task
    results,            \* per batch index: what its _dispatch_async task returned
    completion,         \* batch indices in the order their handlers returned
    agent_locks,        \* Orchestrator._agent_locks: per agent, whether the lock is
                        \* held and the event loop it is bound to (0: none yet)
    running_loop,       \* the event loop of the asyncio.run in progress (0: none yet)
    result,             \* what the call returned or raised
    snapshot,           \* WorkflowState returned by snapshot_state
    approval_counter,   \* Orchestrator._approval_counter
    pending_approvals,  \* Orchestrator._pending_approvals
    policy,             \* Orchestrator._approval_policy
    proxy_registered,   \* whether the policy's user proxy agent id is registered
    tool_calls,         \* every Tool.execute invocation: <<name, arguments>>
    proxy_calls,        \* every message handed to the proxy's handle_message
    last_call,          \* the arbiter call made last, with what it consulted
    outcome,            \* what that call returned or raised
    calls_made,         \* number of arbiter calls made so far
    given,              \* the WorkflowState a caller hands to save_state
    checkpoint_path,    \* whether the call in progress was given a checkpoint_path
    checkpoint,         \* the checkpoint file: times written and its content
    loaded,             \* what load_state returned or raised
    callers,            \* per agent: where its handler is inside request_approval
    commit_arguments,   \* the arguments handed to VCSCommitTool.execute
    commits,            \* every call of the version control service's commit
    commit_outcome,     \* what VCSCommitTool.execute returned or raised
    initial_metadata,   \* UserTask.initial_metadata
    supersteps,         \* bodies of the while loop run by the call in progress
    tools,              \* ToolRegistry._tools: name -> tool instance
    last_register,      \* the register call made last and how it ended
    heap,               \* the dicts and lists of a caller of ToolRegistry.execute
    passed,             \* the object the tool was handed by execute
    executed            \* number of ToolRegistry.execute calls made

runVars == <<behaviour, initial_agent_id, pc, phase, max_steps, first_budget,
             queue, history, processed, batch, status, results, completion,
             agent_locks, running_loop, result, snapshot>>

gateVars == <<approval_counter, pending_approvals>>

toolVars == <<policy, proxy_registered, tool_calls, proxy_calls, last_call, outcome,
              calls_made>>

stateVars == <<given, checkpoint_path, checkpoint, loaded>>

callVars == <<callers>>

vcsVars == <<commit_arguments, commits, commit_outcome>>

taskVars == <<initial_metadata, supersteps>>

registryVars == <<tools, last_register, heap, passed, executed>>

vars == <<runVars, gateVars, toolVars, stateVars, callVars, vcsVars, taskVars,
          registryVars>>

\* ------------------------------------------------------------------------
\* Values of dictionaries and text
\* ------------------------------------------------------------------------

\* Text is a sequence of atoms; the atom " " is white space.
Str(text) == [type |-> "str", val |-> text]

Bool(b) == [type |-> "bool", val |-> IF b THEN <<"true">> ELSE <<"false">>]

None == [type |-> "none", val |-> <<>>]

IsStr(v) == v.type = "str"

IsBool(v) == v.type = "bool"

Number(n) == [type |-> "int", val |-> n]

List(items) == [type |-> "list", val |-> items]

Dict(entries) == [type |-> "dict", val |-> entries]

\* isinstance(v, int): a bool is an int
IsInt(v) == v.type \in {"int", "bool"}

IsList(v) == v.type = "list"

IsDict(v) == v.type = "dict"

\* dict.get(key)
Get(d, key) == IF key \in DOMAIN d THEN d[key] ELSE None

\* d[key] = value
Put(d, key, value) ==
    [k \in DOMAIN d \cup {key} |-> IF k = key THEN value ELSE d[k]]

\* str.strip()
RECURSIVE StripLeft(_)
StripLeft(text) ==
    IF text # <<>> /\ Head(text) = " " THEN StripLeft(Tail(text)) ELSE text

RECURSIVE StripRight(_)
StripRight(text) ==
    IF text # <<>> /\ text[Len(text)] = " "
    THEN StripRight(SubSeq(text, 1, Len(text) - 1))
    ELSE text

Strip(text) == StripRight(StripLeft(text))

StartsWith(text, prefix) ==
    Len(text) >= Len(prefix) /\ SubSeq(text, 1, Len(prefix)) = prefix

Digits == <<"1", "2", "3", "4", "5", "6">>

\* ------------------------------------------------------------------------
\* Messages and metadata
\* ------------------------------------------------------------------------

EmptyMetadata == [k \in {} |-> ""]

\* dict.setdefault(key, value)
SetDefault(metadata, key, value) ==
    IF key \in DOMAIN metadata
    THEN metadata
    ELSE [k \in DOMAIN metadata \cup {key} |-> IF k = key THEN value ELSE metadata[k]]

AgentMessage(sender, recipient, content, metadata) ==
    [sender |-> sender, recipient |-> recipient, content |-> content, metadata |-> metadata]

ApprovalRequest(action, description, metadata) ==
    [action |-> action, description |-> description, metadata |-> metadata]

\* A merge in which the first dictionary's entries win.
MergeKeepingFirst(first, second) ==
    [k \in DOMAIN first \cup DOMAIN second |->
        IF k \in DOMAIN first THEN first[k] ELSE second[k]]

\* {**first, **second}
Merge(first, second) ==
    [k \in DOMAIN first \cup DOMAIN second |->
        IF k \in DOMAIN second THEN second[k] ELSE first[k]]

\* The seed message of _build_initial_state.
InitialMessage ==
    AgentMessage("user", initial_agent_id, TaskDescription,
                 Merge([task_id |-> TaskId], initial_metadata))

\* A deterministic agent: it answers every message with the same list.
HandleMessage(agent, message) ==
    [j \in 1..Len(behaviour[agent]) |->
        AgentMessage(agent, behaviour[agent][j], ContentOf[j], MetadataOf[j])]

NoResult == [kind |-> "none", completed |-> FALSE, messages_processed |-> 0,
             history |-> <<>>, error |-> <<>>]

TaskResult(completed, count, hist) ==
    [kind |-> "result", completed |-> completed, messages_processed |-> count,
     history |-> hist, error |-> <<>>]

OrchestratorError(text) ==
    [kind |-> "error", completed |-> FALSE, messages_processed |-> 0,
     history |-> <<>>, error |-> text]

\* The RuntimeError an asyncio.Lock raises when a task has to wait for it in
\* an event loop other than the one the lock is bound to.
RuntimeError(text) ==
    [kind |-> "runtime_error", completed |-> FALSE, messages_processed |-> 0,
     history |-> <<>>, error |-> text]

DifferentLoop == <<"is bound to a different event loop">>

UnknownAgent(id) == <<"Unknown agent: ", id>>

NoState ==
    [task_id |-> "none", task_description |-> "", initial_agent_id |-> "",
     pending_messages |-> <<>>, history |-> <<>>, messages_processed |-> 0,
     approval_counter |-> 0, pending_approvals |-> EmptyMetadata]

\* ------------------------------------------------------------------------
\* One superstep
\* ------------------------------------------------------------------------

\* The loop stops one message short of the budget.
LoopConditionOffByOne(q, count, N) == q # <<>> /\ count + 1 < N

\* The loop goes on when the count has just reached the budget.
LoopConditionInclusive(q, count, N) == q # <<>> /\ count <= N

\* The condition of the while loop of run_task_async.
LoopCondition(q, count, N) == q # <<>> /\ count < N

\* No lock is ever seen as held.
LockAlwaysFree(locks, agent) == TRUE

\* asyncio.Lock.locked() is false
LockFree(locks, agent) == ~locks[agent].locked

\* A task that finds the lock held has to wait: the lock binds itself to the
\* running event loop the first time this happens, and refuses a task of any
\* other loop afterwards.
MustWait(locks, agent, st, i) ==
    IF locks[agent].loop = 0
    THEN [status |-> [st EXCEPT ![i] = "waiting"],
          locks |-> [locks EXCEPT ![agent].loop = running_loop]]
    ELSE IF locks[agent].loop # running_loop
    THEN [status |-> [st EXCEPT ![i] = "refused"], locks |-> locks]
    ELSE [status |-> [st EXCEPT ![i] = "waiting"], locks |-> locks]

\* The first step of every _dispatch_async task, in batch order: it raises for
\* an unknown recipient, starts the handler when the agent's lock is free,
\* and otherwise waits for the lock or is refused by it.
RECURSIVE StartTasks(_, _, _, _)
StartTasks(b, i, st, locks) ==
    IF i > Len(b) THEN [status |-> st, locks |-> locks]
    ELSE LET r == b[i].recipient IN
         IF r \notin DOMAIN locks
         THEN StartTasks(b, i + 1, [st EXCEPT ![i] = "raised"], locks)
         ELSE IF LockFree(locks, r)
         THEN StartTasks(b, i + 1, [st EXCEPT ![i] = "running"],
                         [locks EXCEPT ![r].locked = TRUE])
         ELSE LET w == MustWait(locks, r, st, i)
              IN StartTasks(b, i + 1, w.status, w.locks)

\* Index of the first task that raised, 0 when none did.
FirstRaised(st) ==
    IF \E i \in DOMAIN st : st[i] \in {"raised", "refused"}
    THEN CHOOSE i \in DOMAIN st :
            /\ st[i] \in {"raised", "refused"}
            /\ \A j \in 1..(i - 1) : st[j] \notin {"raised", "refused"}
    ELSE 0

\* The wait ends with the first task that returns.
GatherFirstCompleted(st) == \E i \in DOMAIN st : st[i] = "done"

\* asyncio.gather returns once every awaitable has returned.
GatherComplete(st) == \A i \in DOMAIN st : st[i] = "done"

\* The results in the order the tasks returned.
GatherResultsAsCompleted(res, order) == [k \in DOMAIN order |-> res[order[k]]]

\* What asyncio.gather returns: the tasks' results in the order of the awaitables.
GatherResults(res, order) == res

\* The nested loop over results: task_id back-filled, then send_message.
\* The task id replaces whatever the agent supplied.
BackFillOverwriting(response, tid) ==
    [response EXCEPT !.metadata = Put(@, "task_id", tid)]

\* response.metadata.setdefault("task_id", task.task_id)
BackFill(response, tid) ==
    [response EXCEPT !.metadata = SetDefault(@, "task_id", tid)]

RECURSIVE CollectResponses(_, _)
CollectResponses(res, tid) ==
    IF res = <<>> THEN <<>>
    ELSE [j \in 1..Len(Head(res)) |-> BackFill(Head(res)[j], tid)]
         \o CollectResponses(Tail(res), tid)

\* ------------------------------------------------------------------------
\* Workflow state
\* ------------------------------------------------------------------------

WorkflowState(agent, pending, hist, count, counter, approvals) ==
    [task_id |-> TaskId, task_description |-> TaskDescription,
     initial_agent_id |-> agent, pending_messages |-> pending, history |-> hist,
     messages_processed |-> count, approval_counter |-> counter,
     pending_approvals |-> approvals]

BuildInitialState ==
    WorkflowState(initial_agent_id, <<InitialMessage>>, <<>>, 0,
                  approval_counter, pending_approvals)

\* A snapshot that leaves the queue out.
SnapshotWithoutPending(hist, count) ==
    WorkflowState(initial_agent_id, <<>>, hist, count,
                  approval_counter, pending_approvals)

\* snapshot_state(task, history, processed)
SnapshotOf(hist, count) ==
    WorkflowState(initial_agent_id, queue, hist, count,
                  approval_counter, pending_approvals)

\* ------------------------------------------------------------------------
\* Serialised workflow state
\* ------------------------------------------------------------------------

\* A value of a payload is written with the type isinstance sees.

\* A message is written without its metadata.
MessageToDictWithoutMetadata(message) ==
    Dict([sender |-> Str(message.sender), recipient |-> Str(message.recipient),
          content |-> Str(message.content), metadata |-> Dict(EmptyMetadata)])

\* _message_to_dict
MessageToDict(message) ==
    Dict([sender |-> Str(message.sender), recipient |-> Str(message.recipient),
          content |-> Str(message.content), metadata |-> Dict(message.metadata)])

\* _approval_request_to_dict
ApprovalRequestToDict(request) ==
    Dict([action |-> Str(request.action), description |-> Str(request.description),
          metadata |-> Dict(request.metadata)])

\* WorkflowState.to_dict
ToDict(state) ==
    [task_id |-> Str(state.task_id),
     task_description |-> Str(state.task_description),
     initial_agent_id |-> Str(state.initial_agent_id),
     pending_messages |-> List([i \in DOMAIN state.pending_messages |->
                                   MessageToDict(state.pending_messages[i])]),
     history |-> List([i \in DOMAIN state.history |-> MessageToDict(state.history[i])]),
     messages_processed |-> Number(state.messages_processed),
     approval_counter |-> Number(state.approval_counter),
     pending_approvals |-> Dict([key \in DOMAIN state.pending_approvals |->
                                   ApprovalRequestToDict(state.pending_approvals[key])])]

\* The texts of _expect_str, _expect_int, _expect_dict and _expect_list.
MissingStr == <<"Serialized workflow state is missing a string value.">>

MissingInt == <<"Serialized workflow state is missing an integer value.">>

MissingDict == <<"Serialized workflow state is missing a dict value.">>

MissingList == <<"Serialized workflow state is missing a list value.">>

\* The first _expect_* of _message_from_dict that raises, <<>> when none does.
MessageFromDictError(item) ==
    IF ~IsDict(item) THEN MissingDict
    ELSE IF ~IsStr(Get(item.val, "sender")) THEN MissingStr
    ELSE IF ~IsStr(Get(item.val, "recipient")) THEN MissingStr
    ELSE IF ~IsStr(Get(item.val, "content")) THEN MissingStr
    ELSE IF ~IsDict(Get(item.val, "metadata")) THEN MissingDict
    ELSE <<>>

\* _message_from_dict
MessageFromDict(item) ==
    AgentMessage(Get(item.val, "sender").val, Get(item.val, "recipient").val,
                 Get(item.val, "content").val, Get(item.val, "metadata").val)

\* The first _expect_* of _approval_request_from_dict that raises.
ApprovalRequestFromDictError(item) ==
    IF ~IsDict(item) THEN MissingDict
    ELSE IF ~IsStr(Get(item.val, "action")) THEN MissingStr
    ELSE IF ~IsStr(Get(item.val, "description")) THEN MissingStr
    ELSE IF ~IsDict(Get(item.val, "metadata")) THEN MissingDict
    ELSE <<>>

\* _approval_request_from_dict
ApprovalRequestFromDict(item) ==
    ApprovalRequest(Get(item.val, "action").val, Get(item.val, "description").val,
                    Get(item.val, "metadata").val)

\* The error of decoding a list of messages: _expect_list, then the items in
\* order.
MessageListError(value) ==
    IF ~IsList(value) THEN MissingList
    ELSE IF \E i \in DOMAIN value.val : MessageFromDictError(value.val[i]) # <<>>
    THEN MessageFromDictError(
            value.val[CHOOSE i \in DOMAIN value.val :
                         /\ MessageFromDictError(value.val[i]) # <<>>
                         /\ \A j \in 1..(i - 1) : MessageFromDictError(value.val[j]) = <<>>])
    ELSE <<>>

\* The error of decoding the pending approvals.
ApprovalsError(value) ==
    IF ~IsDict(value) THEN MissingDict
    ELSE IF \E key \in DOMAIN value.val : ApprovalRequestFromDictError(value.val[key]) # <<>>
    THEN ApprovalRequestFromDictError(
            value.val[CHOOSE key \in DOMAIN value.val :
                         ApprovalRequestFromDictError(value.val[key]) # <<>>])
    ELSE <<>>

\* The first check of WorkflowState.from_dict that raises, in the order the
\* code makes them, <<>> when none does.
FromDictError(payload) ==
    IF MessageListError(Get(payload, "pending_messages")) # <<>>
    THEN MessageListError(Get(payload, "pending_messages"))
    ELSE IF MessageListError(Get(payload, "history")) # <<>>
    THEN MessageListError(Get(payload, "history"))
    ELSE IF ApprovalsError(Get(payload, "pending_approvals")) # <<>>
    THEN ApprovalsError(Get(payload, "pending_approvals"))
    ELSE IF ~IsStr(Get(payload, "task_id")) THEN MissingStr
    ELSE IF ~IsStr(Get(payload, "task_description")) THEN MissingStr
    ELSE IF ~IsStr(Get(payload, "initial_agent_id")) THEN MissingStr
    ELSE IF ~IsInt(Get(payload, "messages_processed")) THEN MissingInt
    ELSE IF ~IsInt(Get(payload, "approval_counter")) THEN MissingInt
    ELSE <<>>

NoLoad == [kind |-> "none", state |-> NoState, error |-> <<>>]

\* WorkflowState.from_dict: the state, or the OrchestratorError it raises.
FromDict(payload) ==
    IF FromDictError(payload) # <<>>
    THEN [kind |-> "error", state |-> NoState, error |-> FromDictError(payload)]
    ELSE [kind |-> "state",
          state |->
            [task_id |-> payload.task_id.val,
             task_description |-> payload.task_description.val,
             initial_agent_id |-> payload.initial_agent_id.val,
             pending_messages |-> [i \in DOMAIN payload.pending_messages.val |->
                                      MessageFromDict(payload.pending_messages.val[i])],
             history |-> [i \in DOMAIN payload.history.val |->
                             MessageFromDict(payload.history.val[i])],
             messages_processed |-> payload.messages_processed.val,
             approval_counter |-> payload.approval_counter.val,
             pending_approvals |-> [key \in DOMAIN payload.pending_approvals.val |->
                                      ApprovalRequestFromDict(
                                          payload.pending_approvals.val[key])]],
          error |-> <<>>]

NoFile == [writes |-> 0, payload |-> None]

NotAnObject == <<"Workflow state payload must be a JSON object.">>

\* load_state(path) for a file that holds the JSON text of payload.
LoadState(payload) ==
    IF ~IsDict(payload)
    THEN [kind |-> "error", state |-> NoState, error |-> NotAnObject]
    ELSE FromDict(payload.val)

\* save_state(state, path): the file holds the JSON text of to_dict(state);
\* the text of strings, integers, lists and string-keyed dicts reads back as
\* the same values.
SaveState(state, file) == [writes |-> file.writes + 1, payload |-> Dict(ToDict(state))]

\* The state is copied into the orchestrator before it is checked against
\* the task.
RunTaskAsyncRestoringFirst(task_id, agent, N, state) ==
    /\ queue' = state.pending_messages
    /\ pending_approvals' = state.pending_approvals
    /\ approval_counter' = state.approval_counter
    /\ IF state.task_id # task_id \/ state.initial_agent_id # agent
       THEN /\ pc' = "raised"
            /\ result' = OrchestratorError(
                             IF state.task_id # task_id
                             THEN <<"Task ID does not match workflow state.">>
                             ELSE <<"Initial agent does not match workflow state.">>)
            /\ UNCHANGED <<max_steps, history, processed, batch, status, results,
                           completion, agent_locks>>
       ELSE /\ pc' = "loop"
            /\ result' = NoResult
            /\ max_steps' = N
            /\ history' = state.history
            /\ processed' = state.messages_processed
            /\ batch' = <<>>
            /\ status' = <<>>
            /\ results' = <<>>
            /\ completion' = <<>>
            /\ UNCHANGED agent_locks

\* The head of run_task_async: the state is checked against the task and
\* copied into the orchestrator.
RunTaskAsync(task_id, agent, N, state) ==
    IF state.task_id # task_id
    THEN /\ pc' = "raised"
         /\ result' = OrchestratorError(<<"Task ID does not match workflow state.">>)
         /\ UNCHANGED <<max_steps, queue, history, processed, batch, status, results,
                        completion, agent_locks, approval_counter, pending_approvals>>
    ELSE IF state.initial_agent_id # agent
    THEN /\ pc' = "raised"
         /\ result' = OrchestratorError(<<"Initial agent does not match workflow state.">>)
         /\ UNCHANGED <<max_steps, queue, history, processed, batch, status, results,
                        completion, agent_locks, approval_counter, pending_approvals>>
    ELSE /\ pc' = "loop"
         /\ result' = NoResult
         /\ max_steps' = N
         /\ queue' = state.pending_messages
         /\ history' = state.history
         /\ processed' = state.messages_processed
         /\ pending_approvals' = state.pending_approvals
         /\ approval_counter' = state.approval_counter
         /\ batch' = <<>>
         /\ status' = <<>>
         /\ results' = <<>>
         /\ completion' = <<>>
         /\ UNCHANGED agent_locks

\* ------------------------------------------------------------------------
\* Actions of a run
\* ------------------------------------------------------------------------

\* run_task(task, max_steps = N): asyncio.run starts a new event loop.
RunTask(N) ==
    /\ pc = "idle"
    /\ phase' = "run"
    /\ first_budget' = N
    /\ running_loop' = running_loop + 1
    /\ RunTaskAsync(TaskId, initial_agent_id, N, BuildInitialState)
    /\ supersteps' = 0
    /\ checkpoint_path' = FALSE
    /\ UNCHANGED <<behaviour, initial_agent_id, snapshot, toolVars, given, checkpoint,
                   loaded, callVars, vcsVars, initial_metadata, registryVars>>

\* The while condition holds: the queue is drained into a batch, the batch is
\* appended to history and gather starts one task per message.
Superstep ==
    /\ pc = "loop"
    /\ LoopCondition(queue, processed, max_steps)
    /\ Len(queue) <= MaxBatch
    /\ supersteps' = supersteps + 1
    /\ LET started == StartTasks(queue, 1, [i \in 1..Len(queue) |-> "new"], agent_locks)
           failed == FirstRaised(started.status)
       IN /\ batch' = queue
          /\ queue' = <<>>
          /\ history' = history \o queue
          /\ status' = started.status
          /\ agent_locks' = started.locks
          /\ results' = [i \in 1..Len(queue) |-> <<>>]
          /\ completion' = <<>>
          /\ IF failed # 0
             THEN /\ pc' = "raised"
                  /\ result' = IF started.status[failed] = "raised"
                               THEN OrchestratorError(UnknownAgent(queue[failed].recipient))
                               ELSE RuntimeError(DifferentLoop)
             ELSE /\ pc' = "gather"
                  /\ UNCHANGED result
    /\ UNCHANGED <<behaviour, initial_agent_id, phase, max_steps, first_budget,
                   processed, running_loop, snapshot, gateVars, toolVars, stateVars, callVars, vcsVars, initial_metadata, registryVars>>

\* A task that waited for its agent's lock gets it (waiters are served first
\* come first) and starts the handler.
\* A waiting dispatch takes the free lock whatever its place among the waiters.
LockAcquireBarging(i) ==
    /\ pc = "gather"
    /\ status[i] = "waiting"
    /\ LockFree(agent_locks, batch[i].recipient)
    /\ status' = [status EXCEPT ![i] = "running"]
    /\ agent_locks' = [agent_locks EXCEPT ![batch[i].recipient].locked = TRUE]
    /\ UNCHANGED <<behaviour, initial_agent_id, pc, phase, max_steps, first_budget,
                   queue, history, processed, batch, results, completion, running_loop,
                   result, snapshot, gateVars, toolVars, stateVars, callVars, vcsVars, taskVars, registryVars>>

LockAcquire(i) ==
    /\ pc = "gather"
    /\ status[i] = "waiting"
    /\ LockFree(agent_locks, batch[i].recipient)
    /\ \A j \in 1..(i - 1) :
          batch[j].recipient = batch[i].recipient => status[j] # "waiting"
    /\ status' = [status EXCEPT ![i] = "running"]
    /\ agent_locks' = [agent_locks EXCEPT ![batch[i].recipient].locked = TRUE]
    /\ UNCHANGED <<behaviour, initial_agent_id, pc, phase, max_steps, first_budget,
                   queue, history, processed, batch, results, completion, running_loop,
                   result, snapshot, gateVars, toolVars, stateVars, callVars, vcsVars, taskVars, registryVars>>

\* handle_message_async of task i returns (the handler is not inside
\* request_approval): the lock is released and the task returns the agent's
\* answer.
HandleReturn(i) ==
    /\ pc = "gather"
    /\ status[i] = "running"
    /\ callers[batch[i].recipient].at = "idle"
    /\ results' = [results EXCEPT ![i] = HandleMessage(batch[i].recipient, batch[i])]
    /\ status' = [status EXCEPT ![i] = "done"]
    /\ completion' = Append(completion, i)
    /\ agent_locks' = [agent_locks EXCEPT ![batch[i].recipient].locked = FALSE]
    /\ UNCHANGED <<behaviour, initial_agent_id, pc, phase, max_steps, first_budget,
                   queue, history, processed, batch, running_loop, result, snapshot,
                   gateVars, toolVars, stateVars, callVars, vcsVars, taskVars, registryVars>>

\* The text of the exception a handler raises.
HandlerFailed == <<"handler failed">>

\* The handler raises and the checkpoint is written before the run gives up.
HandleRaiseAfterCheckpoint(i) ==
    /\ pc = "gather"
    /\ status[i] = "running"
    /\ callers[batch[i].recipient].at = "idle"
    /\ status' = [status EXCEPT ![i] = "raised"]
    /\ agent_locks' = [agent_locks EXCEPT ![batch[i].recipient].locked = FALSE]
    /\ pc' = "raised"
    /\ result' = OrchestratorError(HandlerFailed)
    /\ checkpoint' = IF checkpoint_path
                     THEN SaveState(SnapshotOf(history, processed), checkpoint)
                     ELSE checkpoint
    /\ UNCHANGED <<behaviour, initial_agent_id, phase, max_steps, first_budget,
                   queue, history, processed, batch, results, completion,
                   running_loop, snapshot, gateVars, toolVars, given,
                   checkpoint_path, loaded, callVars, vcsVars, taskVars, registryVars>>

\* handle_message of task i raises (an OrchestratorError of a tool call, for
\* instance): the lock is released, gather passes the exception on and
\* run_task_async ends with it while other handlers of the batch may still
\* be in their worker threads.
HandleRaise(i) ==
    /\ pc = "gather"
    /\ status[i] = "running"
    /\ callers[batch[i].recipient].at = "idle"
    /\ status' = [status EXCEPT ![i] = "raised"]
    /\ agent_locks' = [agent_locks EXCEPT ![batch[i].recipient].locked = FALSE]
    /\ pc' = "raised"
    /\ result' = OrchestratorError(HandlerFailed)
    /\ UNCHANGED <<behaviour, initial_agent_id, phase, max_steps, first_budget,
                   queue, history, processed, batch, results, completion,
                   running_loop, snapshot, gateVars, toolVars, stateVars, callVars, vcsVars, taskVars, registryVars>>

\* After the run raised, a handler that was handed to a worker thread before
\* runs to its end there (unless the cancellation at the end of asyncio.run
\* came first, in which case it never starts); what it returns is dropped.
AbandonedHandlerReturns(i) ==
    /\ pc = "raised"
    /\ i \in DOMAIN status
    /\ status[i] = "running"
    /\ status' = [status EXCEPT ![i] = "done"]
    /\ UNCHANGED <<behaviour, initial_agent_id, pc, phase, max_steps, first_budget,
                   queue, history, processed, batch, results, completion, agent_locks,
                   running_loop, result, snapshot, gateVars, toolVars, stateVars,
                   callVars, vcsVars, taskVars, registryVars>>

\* gather returns: the responses are queued and the batch is counted; with a
\* checkpoint_path the snapshot of the new state is saved.
\* The count goes up by one for a superstep, whatever its size.
GatherDoneCountingSupersteps ==
    /\ pc = "gather"
    /\ GatherComplete(status)
    /\ queue' = queue \o CollectResponses(GatherResults(results, completion), TaskId)
    /\ processed' = processed + 1
    /\ pc' = "loop"
    /\ UNCHANGED <<behaviour, initial_agent_id, phase, max_steps, first_budget,
                   history, batch, status, results, completion, agent_locks,
                   running_loop, result, snapshot, gateVars, toolVars, given,
                   checkpoint_path, loaded, callVars, vcsVars, taskVars, registryVars>>
    /\ checkpoint' = IF checkpoint_path
                     THEN SaveState(SnapshotOf(history, processed)', checkpoint)
                     ELSE checkpoint

GatherDone ==
    /\ pc = "gather"
    /\ GatherComplete(status)
    /\ queue' = queue \o CollectResponses(GatherResults(results, completion), TaskId)
    /\ processed' = processed + Len(batch)
    /\ pc' = "loop"
    /\ UNCHANGED <<behaviour, initial_agent_id, phase, max_steps, first_budget,
                   history, batch, status, results, completion, agent_locks,
                   running_loop, result, snapshot, gateVars, toolVars, given,
                   checkpoint_path, loaded, callVars, vcsVars, taskVars, registryVars>>
    /\ checkpoint' = IF checkpoint_path
                     THEN SaveState(SnapshotOf(history, processed)', checkpoint)
                     ELSE checkpoint

\* The while condition fails: the TaskResult is returned, and with the event
\* loop the order in which its tasks completed is gone.
\* Leaving the loop always counts as completion.
ReturnAlwaysCompleted ==
    /\ pc = "loop"
    /\ ~LoopCondition(queue, processed, max_steps)
    /\ pc' = "returned"
    /\ result' = TaskResult(TRUE, processed, history)
    /\ completion' = <<>>
    /\ UNCHANGED <<behaviour, initial_agent_id, phase, max_steps, first_budget,
                   queue, history, processed, batch, status, results,
                   agent_locks, running_loop, snapshot, gateVars, toolVars, stateVars, callVars, vcsVars, taskVars, registryVars>>

Return ==
    /\ pc = "loop"
    /\ ~LoopCondition(queue, processed, max_steps)
    /\ pc' = "returned"
    /\ result' = TaskResult(queue = <<>>, processed, history)
    /\ completion' = <<>>
    /\ UNCHANGED <<behaviour, initial_agent_id, phase, max_steps, first_budget,
                   queue, history, processed, batch, status, results,
                   agent_locks, running_loop, snapshot, gateVars, toolVars, stateVars, callVars, vcsVars, taskVars, registryVars>>

\* snapshot_state(task, result.history, result.messages_processed)
SnapshotState ==
    /\ pc = "returned"
    /\ phase = "run"
    /\ snapshot = NoState
    /\ snapshot' = SnapshotOf(result.history, result.messages_processed)
    /\ UNCHANGED <<behaviour, initial_agent_id, pc, phase, max_steps, first_budget,
                   queue, history, processed, batch, status, results, completion,
                   agent_locks, running_loop, result, gateVars, toolVars, stateVars, callVars, vcsVars, taskVars, registryVars>>

\* resume_task(snapshot, max_steps = M) on the same orchestrator: the task is
\* rebuilt from the state and asyncio.run starts a new event loop.
ResumeTask(M) ==
    /\ pc = "returned"
    /\ phase = "run"
    /\ snapshot # NoState
    /\ phase' = "resumed"
    /\ running_loop' = running_loop + 1
    /\ RunTaskAsync(snapshot.task_id, snapshot.initial_agent_id, M, snapshot)
    /\ supersteps' = 0
    /\ checkpoint_path' = FALSE
    /\ UNCHANGED <<behaviour, initial_agent_id, first_budget, snapshot, toolVars, given,
                   checkpoint, loaded, callVars, vcsVars, initial_metadata, registryVars>>

\* ------------------------------------------------------------------------
\* Approval policy and gate
\* ------------------------------------------------------------------------

UserProxyAgentId == "user_proxy"

ApprovalPolicy(mode, execution, commit) ==
    [mode |-> mode, require_execution_approval |-> execution,
     require_commit_approval |-> commit, user_proxy_agent_id |-> UserProxyAgentId]

\* Only the execution class is ever gated.
RequiresApprovalExecutionOnly(p, tool_name) ==
    IF p.mode # "approval-required" THEN FALSE
    ELSE IF tool_name = "run_command" THEN p.require_execution_approval
    ELSE FALSE

\* ApprovalPolicy.requires_approval
RequiresApproval(p, tool_name) ==
    IF p.mode # "approval-required" THEN FALSE
    ELSE IF tool_name = "run_command" THEN p.require_execution_approval
    ELSE IF tool_name = "vcs_commit" THEN p.require_commit_approval
    ELSE FALSE

NoRequest == ApprovalRequest("", <<>>, EmptyMetadata)

NoDecision == [kind |-> "none", approved |-> FALSE, approver |-> <<>>, notes |-> None]

ApprovalDecision(approved, approver, notes) ==
    [kind |-> "decision", approved |-> approved, approver |-> approver, notes |-> notes]

\* _next_approval_id: the id for counter value n
ApprovalId(n) == <<"approval-", Digits[n]>>

RECURSIVE ExtractDecision(_, _)

\* The decision is taken from the last response that carries one.
ExtractDecisionLastMatch(request_id, responses) ==
    LET matching == {j \in DOMAIN responses :
                        /\ Get(responses[j], "approval_request_id") = Str(request_id)
                        /\ IsBool(Get(responses[j], "approved"))
                        /\ IsStr(Get(responses[j], "approver"))}
    IN IF matching = {} THEN NoDecision
       ELSE LET last == CHOOSE j \in matching : \A k \in matching : k <= j
            IN ApprovalDecision(Get(responses[last], "approved") = Bool(TRUE),
                                Get(responses[last], "approver").val,
                                Get(responses[last], "notes"))

\* _extract_decision over the metadata of the proxy's responses
ExtractDecision(request_id, responses) ==
    IF responses = <<>> THEN NoDecision
    ELSE LET metadata == Head(responses) IN
         IF Get(metadata, "approval_request_id") # Str(request_id)
         THEN ExtractDecision(request_id, Tail(responses))
         ELSE IF ~IsBool(Get(metadata, "approved")) \/ ~IsStr(Get(metadata, "approver"))
         THEN ExtractDecision(request_id, Tail(responses))
         ELSE ApprovalDecision(Get(metadata, "approved") = Bool(TRUE),
                               Get(metadata, "approver").val,
                               Get(metadata, "notes"))

\* The metadata of one proxy response, given the id of the request it got.
ReplyMetadata(reply, request_id) ==
    [k \in {"approval_request_id", "approved", "approver", "notes"} |->
        IF k = "approval_request_id"
        THEN (IF reply.echo THEN Str(request_id) ELSE Str(<<"approval-", "0">>))
        ELSE reply[k]]

\* The synthesized decision with one more id counted.
SystemDecisionCounted ==
    [kind |-> "decision",
     decision |-> ApprovalDecision(TRUE, <<"system">>,
                                   Str(<<"Autonomous mode: approval bypassed.">>)),
     error |-> <<>>, counter |-> approval_counter + 1,
     pending |-> pending_approvals, sent |-> <<>>,
     request_id |-> <<>>, responses |-> <<>>]

\* request_approval when the mode is not approval-required: the decision is
\* synthesized and the gate's state stays as it is.
SystemDecision ==
    [kind |-> "decision",
     decision |-> ApprovalDecision(TRUE, <<"system">>,
                                   Str(<<"Autonomous mode: approval bypassed.">>)),
     error |-> <<>>, counter |-> approval_counter,
     pending |-> pending_approvals, sent |-> <<>>,
     request_id |-> <<>>, responses |-> <<>>]

\* The round trip in which an answer without a decision counts as an
\* approval by the system.
AskProxyApprovingByDefault(request, replies) ==
    LET n == approval_counter + 1
        request_id == ApprovalId(n)
        pending == Put(pending_approvals, request_id, request)
        message == AgentMessage("orchestrator", policy.user_proxy_agent_id,
                                request.description,
                                [approval_request_id |-> Str(request_id)])
        responses == [j \in DOMAIN replies |-> ReplyMetadata(replies[j], request_id)]
        decision == ExtractDecision(request_id, responses)
    IN IF ~proxy_registered
       THEN [kind |-> "error", decision |-> NoDecision,
             error |-> <<"User proxy agent '", policy.user_proxy_agent_id,
                         "' is not registered.">>,
             counter |-> n, pending |-> pending, sent |-> <<>>,
             request_id |-> request_id, responses |-> <<>>]
       ELSE [kind |-> "decision",
             decision |-> IF decision.kind = "none"
                          THEN ApprovalDecision(TRUE, <<"system">>, None)
                          ELSE decision,
             error |-> <<>>,
             counter |-> n, pending |-> pending, sent |-> <<message>>,
             request_id |-> request_id, responses |-> responses]

\* A round trip that allocates the id and records the request only once the
\* proxy has given its decision.
AskProxyRecordingDecided(request, replies) ==
    LET n == approval_counter + 1
        request_id == ApprovalId(n)
        pending == Put(pending_approvals, request_id, request)
        message == AgentMessage("orchestrator", policy.user_proxy_agent_id,
                                request.description,
                                [approval_request_id |-> Str(request_id)])
        responses == [j \in DOMAIN replies |-> ReplyMetadata(replies[j], request_id)]
        decision == ExtractDecision(request_id, responses)
    IN IF ~proxy_registered
       THEN [kind |-> "error", decision |-> NoDecision,
             error |-> <<"User proxy agent '", policy.user_proxy_agent_id,
                         "' is not registered.">>,
             counter |-> approval_counter, pending |-> pending_approvals, sent |-> <<>>,
             request_id |-> request_id, responses |-> <<>>]
       ELSE IF decision.kind = "none"
       THEN [kind |-> "error", decision |-> NoDecision,
             error |-> <<"User proxy did not return a decision for request '">>
                       \o request_id \o <<"'.">>,
             counter |-> approval_counter, pending |-> pending_approvals,
             sent |-> <<message>>,
             request_id |-> request_id, responses |-> responses]
       ELSE [kind |-> "decision", decision |-> decision, error |-> <<>>,
             counter |-> n, pending |-> pending, sent |-> <<message>>,
             request_id |-> request_id, responses |-> responses]

\* request_approval under approval-required, the proxy answering with
\* `replies`: the id is allocated and the request recorded, then the proxy's
\* handler is called and its responses are searched for the decision.
AskProxy(request, replies) ==
    LET n == approval_counter + 1
        request_id == ApprovalId(n)
        pending == Put(pending_approvals, request_id, request)
        message == AgentMessage("orchestrator", policy.user_proxy_agent_id,
                                request.description,
                                [approval_request_id |-> Str(request_id)])
        responses == [j \in DOMAIN replies |-> ReplyMetadata(replies[j], request_id)]
        decision == ExtractDecision(request_id, responses)
    IN IF ~proxy_registered
       THEN [kind |-> "error", decision |-> NoDecision,
             error |-> <<"User proxy agent '", policy.user_proxy_agent_id,
                         "' is not registered.">>,
             counter |-> n, pending |-> pending, sent |-> <<>>,
             request_id |-> request_id, responses |-> <<>>]
       ELSE IF decision.kind = "none"
       THEN [kind |-> "error", decision |-> NoDecision,
             error |-> <<"User proxy did not return a decision for request '">>
                       \o request_id \o <<"'.">>,
             counter |-> n, pending |-> pending, sent |-> <<message>>,
             request_id |-> request_id, responses |-> responses]
       ELSE [kind |-> "decision", decision |-> decision, error |-> <<>>,
             counter |-> n, pending |-> pending, sent |-> <<message>>,
             request_id |-> request_id, responses |-> responses]

\* request_approval(request), the proxy answering with `replies`: the decision
\* or the error, with the gate's state after the call.
RequestApproval(request, replies) ==
    IF policy.mode # "approval-required"
    THEN SystemDecision
    ELSE AskProxy(request, replies)

\* ------------------------------------------------------------------------
\* Tool arbiter
\* ------------------------------------------------------------------------

\* Names given to ToolRegistry.register.
RegisteredTools == {"run_command", "vcs_commit", "read_file"}

ToolNames == RegisteredTools \cup {"no_such_tool"}

Caller == <<"coder">>

ToolResult(name, success, output, error) ==
    [kind |-> "result", name |-> name, success |-> success, output |-> output,
     error |-> error]

ToolError(text) ==
    [kind |-> "error", name |-> "", success |-> FALSE, output |-> EmptyMetadata,
     error |-> text]

NoOutcome ==
    [kind |-> "none", name |-> "", success |-> FALSE, output |-> EmptyMetadata,
     error |-> <<>>]

ApprovalRequiredError(name) ==
    <<"Tool '", name, "' requires explicit approval via request_approval.">>

\* The rejection text without the approver.
RejectionErrorWithoutApprover(approver, notes) ==
    Strip(<<"Approval", " ", "rejected", ":", " ">>
          \o (IF IsStr(notes) THEN notes.val ELSE <<>>))

\* The error text of the ToolResult of a rejected approval.
RejectionError(approver, notes) ==
    Strip(<<"Approval", " ", "rejected", " ", "by", " ">> \o approver \o <<":", " ">>
          \o (IF IsStr(notes) THEN notes.val ELSE <<>>))

\* The ToolExecutionError a tool raises.
ToolExecutionError(text) ==
    [kind |-> "tool_execution_error", name |-> "", success |-> FALSE,
     output |-> EmptyMetadata, error |-> text]

\* The ToolNotFoundError of ToolRegistry.get.
ToolNotFoundError(name) ==
    [kind |-> "tool_not_found", name |-> "", success |-> FALSE,
     output |-> EmptyMetadata, error |-> <<"Tool '", name, "' is not registered">>]

\* Tool.execute(arguments) of a registered tool: it returns a result or raises.
ToolExecute(name, arguments, does) ==
    IF does = "success" THEN ToolResult(name, TRUE, arguments, <<>>)
    ELSE IF does = "failure" THEN ToolResult(name, FALSE, EmptyMetadata, <<"failed">>)
    ELSE ToolExecutionError(<<"tool raised">>)

\* A registry that answers for a missing tool with a failed result.
RegistryExecuteWithoutRaising(name, arguments, does) ==
    IF name \notin RegisteredTools
    THEN [outcome |-> ToolResult(name, FALSE, EmptyMetadata,
                                 <<"Tool '", name, "' is not registered">>),
          invoked |-> <<>>]
    ELSE [outcome |-> ToolExecute(name, arguments, does),
          invoked |-> <<[name |-> name, arguments |-> arguments]>>]

\* ToolRegistry.execute(name, arguments): get raises for a name that is not
\* registered, otherwise the tool is invoked.
RegistryExecute(name, arguments, does) ==
    IF name \notin RegisteredTools
    THEN [outcome |-> ToolNotFoundError(name), invoked |-> <<>>]
    ELSE [outcome |-> ToolExecute(name, arguments, does),
          invoked |-> <<[name |-> name, arguments |-> arguments]>>]

\* execute_tool(name, arguments): what it returns or raises, and the
\* Tool.execute invocations it makes. Both errors of the registry become an
\* OrchestratorError with the text of the error caught.
ExecuteToolOutcome(name, arguments, does) ==
    IF RequiresApproval(policy, name)
    THEN [outcome |-> ToolError(ApprovalRequiredError(name)), invoked |-> <<>>]
    ELSE LET done == RegistryExecute(name, arguments, does)
         IN IF done.outcome.kind \in {"tool_not_found", "tool_execution_error"}
            THEN [outcome |-> ToolError(done.outcome.error), invoked |-> done.invoked]
            ELSE done

\* The arguments handed on after an approval.
ApprovedArguments(arguments, approver) ==
    SetDefault(SetDefault(arguments, "approved", Bool(TRUE)), "approver", Str(approver))

\* The request built when the caller passes none.
DefaultRequest(name, arguments) ==
    ApprovalRequest(name, <<"Approve tool execution for '", name, "'.">>,
                    [arguments |-> [type |-> "dict", val |-> <<arguments>>],
                     caller |-> Str(Caller)])

ExplicitRequest(name) ==
    ApprovalRequest(name, <<"Run command?">>, [payload |-> Str(<<"value">>)])

\* execute_tool(name, arguments, caller = Caller) called directly
ExecuteTool(name, arguments, does) ==
    LET done == ExecuteToolOutcome(name, arguments, does) IN
    /\ pc \in {"idle", "returned"}
    /\ calls_made < MaxCalls
    /\ calls_made' = calls_made + 1
    /\ outcome' = done.outcome
    /\ tool_calls' = tool_calls \o done.invoked
    /\ last_call' = [op |-> "execute_tool", name |-> name, arguments |-> arguments,
                     gated |-> FALSE, decision |-> NoDecision,
                     invoked |-> Len(done.invoked),
                     required |-> RequiresApproval(policy, name),
                     request |-> NoRequest, request_id |-> <<>>, responses |-> <<>>]
    /\ UNCHANGED <<runVars, gateVars, policy, proxy_registered, proxy_calls,
                   stateVars, callVars, vcsVars, taskVars, registryVars>>

\* execute_tool_with_approval(name, arguments, caller = Caller, request)
ExecuteToolWithApproval(name, arguments, explicit, replies, does) ==
    /\ pc \in {"idle", "returned"}
    /\ calls_made < MaxCalls
    /\ calls_made' = calls_made + 1
    /\ IF RequiresApproval(policy, name)
       THEN LET request == IF explicit THEN ExplicitRequest(name)
                           ELSE DefaultRequest(name, arguments)
                asked == RequestApproval(request, replies)
                done == ExecuteToolOutcome(name,
                            ApprovedArguments(arguments, asked.decision.approver), does)
            IN /\ approval_counter' = asked.counter
               /\ pending_approvals' = asked.pending
               /\ proxy_calls' = proxy_calls \o asked.sent
               /\ IF asked.kind = "error"
                  THEN /\ outcome' = ToolError(asked.error)
                       /\ UNCHANGED tool_calls
                  ELSE IF ~asked.decision.approved
                  THEN /\ outcome' = ToolResult(name, FALSE, EmptyMetadata,
                                                RejectionError(asked.decision.approver,
                                                               asked.decision.notes))
                       /\ UNCHANGED tool_calls
                  ELSE /\ outcome' = done.outcome
                       /\ tool_calls' = tool_calls \o done.invoked
               /\ last_call' = [op |-> "execute_tool_with_approval", name |-> name,
                                arguments |-> arguments, gated |-> TRUE,
                                decision |-> asked.decision,
                                invoked |-> Len(tool_calls') - Len(tool_calls),
                                required |-> TRUE, request |-> request,
                                request_id |-> asked.request_id,
                                responses |-> asked.responses]
       ELSE LET done == ExecuteToolOutcome(name, arguments, does)
            IN /\ outcome' = done.outcome
               /\ tool_calls' = tool_calls \o done.invoked
               /\ last_call' = [op |-> "execute_tool_with_approval", name |-> name,
                                arguments |-> arguments, gated |-> FALSE,
                                decision |-> NoDecision,
                                invoked |-> Len(done.invoked),
                                required |-> FALSE, request |-> NoRequest,
                                request_id |-> <<>>, responses |-> <<>>]
               /\ UNCHANGED <<gateVars, proxy_calls>>
    /\ UNCHANGED <<runVars, policy, proxy_registered, stateVars, callVars, vcsVars, taskVars, registryVars>>

\* request_approval(request) called directly, the proxy answering with
\* `replies`.
\* The proxy's responses are sent like the responses of a dispatch.
RequestApprovalCallEnqueuing(request, replies) ==
    LET asked == RequestApproval(request, replies) IN
    /\ pc \in {"idle", "returned"}
    /\ calls_made < MaxCalls
    /\ calls_made' = calls_made + 1
    /\ approval_counter' = asked.counter
    /\ pending_approvals' = asked.pending
    /\ proxy_calls' = proxy_calls \o asked.sent
    /\ outcome' = IF asked.kind = "error" THEN ToolError(asked.error) ELSE NoOutcome
    /\ last_call' = [op |-> "request_approval", name |-> request.action,
                     arguments |-> EmptyMetadata, gated |-> FALSE,
                     decision |-> asked.decision, invoked |-> 0,
                     required |-> FALSE, request |-> request,
                     request_id |-> asked.request_id, responses |-> asked.responses]
    /\ queue' = queue \o [j \in DOMAIN asked.responses |->
                             AgentMessage(policy.user_proxy_agent_id, "orchestrator",
                                          "decision", EmptyMetadata)]
    /\ UNCHANGED <<behaviour, initial_agent_id, pc, phase, max_steps, first_budget,
                   history, processed, batch, status, results, completion,
                   agent_locks, running_loop, result, snapshot,
                   policy, proxy_registered, tool_calls, stateVars, callVars,
                   vcsVars, taskVars, registryVars>>

RequestApprovalCall(request, replies) ==
    LET asked == RequestApproval(request, replies) IN
    /\ pc \in {"idle", "returned"}
    /\ calls_made < MaxCalls
    /\ calls_made' = calls_made + 1
    /\ approval_counter' = asked.counter
    /\ pending_approvals' = asked.pending
    /\ proxy_calls' = proxy_calls \o asked.sent
    /\ outcome' = IF asked.kind = "error" THEN ToolError(asked.error) ELSE NoOutcome
    /\ last_call' = [op |-> "request_approval", name |-> request.action,
                     arguments |-> EmptyMetadata, gated |-> FALSE,
                     decision |-> asked.decision, invoked |-> 0,
                     required |-> FALSE, request |-> request,
                     request_id |-> asked.request_id, responses |-> asked.responses]
    /\ UNCHANGED <<runVars, policy, proxy_registered, tool_calls, stateVars, callVars, vcsVars, taskVars, registryVars>>

NoCall ==
    [op |-> "none", name |-> "", arguments |-> EmptyMetadata, gated |-> FALSE,
     decision |-> NoDecision, invoked |-> 0, required |-> FALSE,
     request |-> NoRequest, request_id |-> <<>>, responses |-> <<>>]

\* The orchestrator's arbiter state right after construction with the
\* default policy and no proxy registered.
ArbiterIdle ==
    /\ policy = ApprovalPolicy("autonomous", FALSE, TRUE)
    /\ proxy_registered = FALSE
    /\ tool_calls = <<>>
    /\ proxy_calls = <<>>
    /\ last_call = NoCall
    /\ outcome = NoOutcome
    /\ calls_made = 0

\* No state was handed over, saved or loaded, and no call runs with a
\* checkpoint_path.
NothingStored ==
    /\ given = NoState
    /\ checkpoint_path = FALSE
    /\ checkpoint = NoFile
    /\ loaded = NoLoad

\* A registry nobody has used yet.
RegistryUnused ==
    /\ tools = [k \in {} |-> ""]
    /\ last_register = [kind |-> "none", tool |-> [name |-> "", id |-> 0], error |-> <<>>]
    /\ heap = <<>>
    /\ passed = 0
    /\ executed = 0

\* No handler is inside request_approval.
NoCallers == [g \in Registered |-> [at |-> "idle", seen |-> 0, ids |-> <<>>]]

\* ------------------------------------------------------------------------
\* Specification of the run loop
\* ------------------------------------------------------------------------

Answers == UNION {[1..n -> AgentIds] : n \in 0..MaxResponses}

\* Some message of the task can reach the agent: it is the initial agent, or
\* the initial agent is registered and answers with a message to it.
Addressed(beh, seed, agent) ==
    \/ seed = agent
    \/ /\ seed \in Registered
       /\ \E j \in DOMAIN beh[seed] : beh[seed][j] = agent

\* The answers of an agent no message can reach play no part: they are left
\* empty instead of being enumerated.
Init ==
    /\ behaviour \in [Registered -> Answers]
    /\ initial_agent_id \in {"a", "x"}
    /\ \A g \in Registered :
          ~Addressed(behaviour, initial_agent_id, g) => behaviour[g] = <<>>
    /\ pc = "idle"
    /\ phase = "none"
    /\ max_steps = 0
    /\ first_budget = 0
    /\ queue = <<>>
    /\ history = <<>>
    /\ processed = 0
    /\ batch = <<>>
    /\ status = <<>>
    /\ results = <<>>
    /\ completion = <<>>
    /\ agent_locks = [g \in Registered |-> [locked |-> FALSE, loop |-> 0]]
    /\ running_loop = 0
    /\ result = NoResult
    /\ snapshot = NoState
    /\ approval_counter = 0
    /\ pending_approvals = EmptyMetadata
    /\ ArbiterIdle
    /\ NothingStored
    /\ callers = NoCallers
    /\ commit_arguments = EmptyMetadata
    /\ commits = <<>>
    /\ commit_outcome = NoOutcome
    /\ initial_metadata = EmptyMetadata
    /\ supersteps = 0
    /\ RegistryUnused

Next ==
    \/ \E N \in 0..MaxBudget : RunTask(N)
    \/ Superstep
    \/ \E i \in DOMAIN status : LockAcquire(i)
    \/ \E i \in DOMAIN status : HandleReturn(i)
    \/ GatherDone
    \/ Return
    \/ SnapshotState
    \/ \E M \in 0..MaxBudget : ResumeTask(M)

Spec == Init /\ [][Next]_vars

\* ------------------------------------------------------------------------
\* Reference semantics of a task
\* ------------------------------------------------------------------------

\* The task's messages handled one at a time in first-in first-out order, n
\* of them at most: each message is recorded and its recipient's answer (none
\* for an unregistered recipient) joins the end of the queue.
RECURSIVE FifoRun(_, _, _)
FifoRun(q, h, n) ==
    IF n = 0 \/ q = <<>> THEN [queue |-> q, history |-> h]
    ELSE LET m == Head(q)
             answer == IF m.recipient \in Registered
                       THEN CollectResponses(<<HandleMessage(m.recipient, m)>>, TaskId)
                       ELSE <<>>
         IN FifoRun(Tail(q) \o answer, Append(h, m), n - 1)

\* Number of messages the task produces in total, the seed included
\* (FuelCap + 1 stands for any larger number, infinity included).
TotalMessages ==
    LET f == FifoRun(<<InitialMessage>>, <<>>, FuelCap)
    IN IF f.queue = <<>> THEN Len(f.history) ELSE FuelCap + 1

\* Every message the task produces names a registered recipient.
AllRecipientsRegistered ==
    LET f == FifoRun(<<InitialMessage>>, <<>>, FuelCap)
    IN \A i \in DOMAIN f.history : f.history[i].recipient \in Registered

\* First index of b whose recipient is not registered, 0 when there is none.
FirstUnknown(b) ==
    IF \E i \in DOMAIN b : b[i].recipient \notin Registered
    THEN CHOOSE i \in DOMAIN b :
            /\ b[i].recipient \notin Registered
            /\ \A j \in 1..(i - 1) : b[j].recipient \in Registered
    ELSE 0

\* One uninterrupted run of the loop from (q, h, count) under budget N.
RECURSIVE RunLoop(_, _, _, _)
RunLoop(q, h, count, N) ==
    IF LoopCondition(q, count, N)
    THEN IF FirstUnknown(q) # 0
         THEN OrchestratorError(UnknownAgent(q[FirstUnknown(q)].recipient))
         ELSE RunLoop(CollectResponses([i \in 1..Len(q) |->
                                          HandleMessage(q[i].recipient, q[i])], TaskId),
                      h \o q, count + Len(q), N)
    ELSE TaskResult(q = <<>>, count, h)

\* run_task(task, max_steps = N) on a fresh orchestrator, never interrupted.
UninterruptedRun(N) == RunLoop(<<InitialMessage>>, <<>>, 0, N)

FreshRunReturned == phase = "run" /\ pc = "returned"

\* ------------------------------------------------------------------------
\* Claims about the run loop
\* ------------------------------------------------------------------------

\* C4: for deterministic agents whose message graph ends after T messages in
\* total (seed included), all addressed to registered agents, a fresh
\* run_task with max_steps >= T never raises and returns completed = true,
\* messages_processed = T and an empty queue.
C4_CompletesWithinBudget ==
    (phase = "run" /\ pc \in {"returned", "raised"} /\ max_steps >= TotalMessages) =>
        /\ AllRecipientsRegistered => pc # "raised"
        /\ pc = "returned" =>
              /\ result.completed
              /\ result.messages_processed = TotalMessages
              /\ queue = <<>>

C4_Witness ==
    /\ FreshRunReturned
    /\ TotalMessages = 3
    /\ max_steps >= TotalMessages
    /\ result.completed
    /\ result.messages_processed = 3

\* C5 as stated: a task producing more than N messages returns
\* completed = false with a non-empty queue and messages_processed = N.
C5_HaltsExactlyAtBudget ==
    (FreshRunReturned /\ TotalMessages > max_steps) =>
        /\ ~result.completed
        /\ queue # <<>>
        /\ result.messages_processed = max_steps

\* C5 amended: a task producing more than N messages returns with
\* messages_processed >= N; the count advances by whole batches, so it is N
\* only when a superstep boundary falls on N and otherwise exceeds N by less
\* than the size of the last batch; completed is false and the queue is
\* non-empty unless that last batch used up the task's messages, in which
\* case completed is true and messages_processed is the total.
C5_HaltsAtFirstBoundaryPastBudget ==
    (FreshRunReturned /\ TotalMessages > max_steps) =>
        /\ result.messages_processed >= max_steps
        /\ \/ result.messages_processed = max_steps
           \/ result.messages_processed - Len(batch) < max_steps
        /\ result.completed <=> queue = <<>>
        /\ result.completed <=> result.messages_processed = TotalMessages

C5_Witness ==
    /\ FreshRunReturned
    /\ TotalMessages > max_steps
    /\ result.messages_processed > max_steps
    /\ ~result.completed
    /\ queue # <<>>

\* C6: within one superstep two messages addressed to the same agent are never
\* being handled at the same time: a later one is handled only after every
\* earlier one for that recipient has returned.
C6_SameRecipientSequential ==
    \A i, j \in DOMAIN status :
        (i < j /\ batch[i].recipient = batch[j].recipient
               /\ batch[i].recipient \in Registered) =>
            /\ ~(status[i] = "running" /\ status[j] = "running")
            /\ status[j] \in {"running", "done"} => status[i] = "done"

\* The first of two messages to one agent is being handled and the second
\* waits, while a message to another agent is being handled too.
C6_Witness ==
    \E i, j, k \in DOMAIN status :
        /\ i < j
        /\ batch[i].recipient = batch[j].recipient
        /\ status[i] = "running"
        /\ status[j] = "waiting"
        /\ batch[k].recipient # batch[i].recipient
        /\ status[k] = "running"

\* C7: a superstep is dispatched (history grows by the new batch) only when
\* every dispatch of the previous superstep has returned and the queue holds
\* exactly the responses collected from it.
C7_SuperstepsSequential ==
    [][history' # history =>
         /\ pc = "loop"
         /\ \A i \in DOMAIN status : status[i] = "done"
         /\ batch # <<>> =>
               queue = CollectResponses([i \in DOMAIN batch |->
                                           HandleMessage(batch[i].recipient, batch[i])],
                                        TaskId)
         /\ batch' = queue]_vars

\* A superstep is in progress that follows one with several dispatches.
C7_Witness ==
    /\ pc = "gather"
    /\ Len(batch) >= 2
    /\ Len(history) - Len(batch) >= 3
    /\ \E i \in DOMAIN status : status[i] = "running"

\* C8: at every superstep boundary the history and the queue are those of
\* handling the task's messages one at a time in queue order, whatever the
\* order in which the concurrent dispatches returned.
C8_HistoryInQueueOrder ==
    pc \in {"loop", "returned"} =>
        LET f == FifoRun(<<InitialMessage>>, <<>>, processed)
        IN /\ history = f.history
           /\ queue = f.queue

\* A superstep has been folded whose dispatches returned out of batch order.
C8_Witness ==
    /\ pc = "loop"
    /\ Len(completion) >= 2
    /\ completion[1] > completion[2]
    /\ results[completion[1]] # results[completion[2]]
    /\ queue # <<>>

\* C9: when a dispatched batch holds a message to an unregistered recipient
\* the run has raised OrchestratorError "Unknown agent: <id>" naming that
\* recipient, and no returned TaskResult has such a message in its history.
C9_UnknownAgentRaises ==
    /\ FirstUnknown(batch) # 0 =>
          /\ pc = "raised"
          /\ result.kind = "error"
          /\ result.error = <<"Unknown agent: ", batch[FirstUnknown(batch)].recipient>>
    /\ pc = "returned" =>
          \A i \in DOMAIN result.history : result.history[i].recipient \in Registered

\* C10, for the budgets k <= M: run(max_steps = k), snapshot_state and
\* resume_task(snapshot, max_steps = M) end with the same history,
\* messages_processed and completed flag (or the same error) as one
\* uninterrupted run(max_steps = M).  (For k > M the first call alone may
\* already have processed more than run(max_steps = M) does.)
C10_SplitResumeEquivalence ==
    (phase = "resumed" /\ pc \in {"returned", "raised"} /\ first_budget <= max_steps) =>
        result = UninterruptedRun(max_steps)

\* ------------------------------------------------------------------------
\* Specification of the tool arbiter
\* ------------------------------------------------------------------------

Policies ==
    {ApprovalPolicy(mode, execution, commit) :
        mode \in {"autonomous", "approval-required", "manual"},
        execution \in BOOLEAN, commit \in BOOLEAN}

\* Arguments a caller passes.
ArgumentSets ==
    {[payload |-> Str(<<"value">>)],
     [payload |-> Str(<<"value">>), approved |-> Bool(FALSE), approver |-> Str(<<"me">>)],
     [message |-> Str(<<"x">>), approved |-> Bool(TRUE)]}

\* One response of the proxy: whether its metadata repeats the id of the
\* request, and what it carries as approved, approver and notes.
Reply(echo, approved, approver, notes) ==
    [echo |-> echo, approved |-> approved, approver |-> approver, notes |-> notes]

\* An approval, a rejection without and with notes, an answer whose approved
\* is a string, one without approver, and an approval of another request.
Replies ==
    {Reply(TRUE, Bool(TRUE), Str(<<"tester">>), None),
     Reply(TRUE, Bool(FALSE), Str(<<"tester">>), None),
     Reply(TRUE, Bool(FALSE), Str(<<"tester">>), Str(<<"why">>)),
     Reply(TRUE, Str(<<"yes">>), Str(<<"tester">>), None),
     Reply(TRUE, Bool(TRUE), None, None),
     Reply(FALSE, Bool(TRUE), Str(<<"tester">>), None)}

\* What the proxy's handler returns to a call of request_approval.
ReplySeqs == UNION {[1..n -> Replies] : n \in 0..MaxReplies}

\* What it returns to the request of a gated tool call.
ToolReplySeqs == UNION {[1..n -> Replies] : n \in 0..1}

\* The request a caller hands to request_approval.
DirectRequest ==
    ApprovalRequest("deploy", <<"Deploy the build">>, [target |-> Str(<<"prod">>)])

ToolBehaviours == {"success", "failure", "raise"}

InitTool ==
    /\ behaviour = [g \in Registered |-> <<>>]
    /\ initial_agent_id = "a"
    /\ pc = "idle"
    /\ phase = "none"
    /\ max_steps = 0
    /\ first_budget = 0
    /\ queue = <<>>
    /\ history = <<>>
    /\ processed = 0
    /\ batch = <<>>
    /\ status = <<>>
    /\ results = <<>>
    /\ completion = <<>>
    /\ agent_locks = [g \in Registered |-> [locked |-> FALSE, loop |-> 0]]
    /\ running_loop = 0
    /\ result = NoResult
    /\ snapshot = NoState
    /\ approval_counter = 0
    /\ pending_approvals = EmptyMetadata
    /\ policy \in Policies
    /\ proxy_registered \in BOOLEAN
    /\ tool_calls = <<>>
    /\ proxy_calls = <<>>
    /\ last_call = NoCall
    /\ outcome = NoOutcome
    /\ calls_made = 0
    /\ NothingStored
    /\ callers = NoCallers
    /\ commit_arguments = EmptyMetadata
    /\ commits = <<>>
    /\ commit_outcome = NoOutcome
    /\ initial_metadata = EmptyMetadata
    /\ supersteps = 0
    /\ RegistryUnused

NextTool ==
    \/ \E name \in ToolNames, arguments \in ArgumentSets :
          \E does \in (IF ~RequiresApproval(policy, name) /\ name \in RegisteredTools
                       THEN ToolBehaviours ELSE {"success"}) :
             ExecuteTool(name, arguments, does)
    \/ \E name \in ToolNames, arguments \in ArgumentSets :
          \E explicit \in (IF RequiresApproval(policy, name) THEN BOOLEAN ELSE {FALSE}),
             replies \in (IF RequiresApproval(policy, name) /\ proxy_registered
                          THEN ToolReplySeqs ELSE {<<>>}),
             does \in (IF ~RequiresApproval(policy, name) /\ name \in RegisteredTools
                       THEN ToolBehaviours ELSE {"success"}) :
             ExecuteToolWithApproval(name, arguments, explicit, replies, does)
    \/ \E replies \in (IF policy.mode = "approval-required" /\ proxy_registered
                       THEN ReplySeqs ELSE {<<>>}) :
          RequestApprovalCall(DirectRequest, replies)

ToolSpec == InitTool /\ [][NextTool]_vars

\* ------------------------------------------------------------------------
\* Claims about the tool arbiter
\* ------------------------------------------------------------------------

\* The policy gates the tool: approval-required mode and the flag of the
\* tool's class (execution for run_command, commit for vcs_commit) set.
PolicyGates(name) ==
    /\ policy.mode = "approval-required"
    /\ \/ name = "run_command" /\ policy.require_execution_approval
       \/ name = "vcs_commit" /\ policy.require_commit_approval

ApprovedGatedCall ==
    /\ last_call.op = "execute_tool_with_approval"
    /\ PolicyGates(last_call.name)
    /\ last_call.decision.kind = "decision"
    /\ last_call.decision.approved

RejectedGatedCall ==
    /\ last_call.op = "execute_tool_with_approval"
    /\ PolicyGates(last_call.name)
    /\ last_call.decision.kind = "decision"
    /\ ~last_call.decision.approved

\* C1 as stated: for a gated tool whose approval the proxy grants,
\* execute_tool_with_approval invokes the registered tool exactly once with
\* the caller's arguments plus approved = true and approver = the decision's
\* approver (caller-supplied values kept) and returns instead of raising the
\* approval error.
C1_ApprovedGatedToolIsExecuted ==
    ApprovedGatedCall =>
        /\ last_call.invoked = 1
        /\ tool_calls # <<>>
        /\ tool_calls[Len(tool_calls)] =
              [name |-> last_call.name,
               arguments |-> ApprovedArguments(last_call.arguments,
                                               last_call.decision.approver)]
        /\ outcome.error # ApprovalRequiredError(last_call.name)

\* C2: for a gated tool whose approval the proxy rejects,
\* execute_tool_with_approval calls no tool and returns
\* ToolResult(success = false) whose error starts with
\* "Approval rejected by <approver>".
C2_RejectedNeverExecutes ==
    RejectedGatedCall =>
        /\ last_call.invoked = 0
        /\ outcome.kind = "result"
        /\ outcome.name = last_call.name
        /\ ~outcome.success
        /\ StartsWith(outcome.error,
                      <<"Approval", " ", "rejected", " ", "by", " ">>
                          \o last_call.decision.approver)

\* vcs_commit gated by require_commit_approval was rejected by the proxy,
\* which gave no notes.
C2_Witness ==
    /\ RejectedGatedCall
    /\ last_call.name = "vcs_commit"
    /\ last_call.decision.approver = <<"tester">>
    /\ last_call.decision.notes = None
    /\ outcome.error = <<"Approval", " ", "rejected", " ", "by", " ", "tester", ":">>
    /\ proxy_calls # <<>>

\* C3: execute_tool called directly raises the approval error and invokes
\* nothing when the policy gates the tool name, and never raises that error
\* for a name the policy does not gate.
C3_DirectExecutionOfGatedToolRaises ==
    last_call.op = "execute_tool" =>
        IF PolicyGates(last_call.name)
        THEN /\ outcome = ToolError(ApprovalRequiredError(last_call.name))
             /\ last_call.invoked = 0
        ELSE outcome.error # ApprovalRequiredError(last_call.name)

\* A direct call of gated vcs_commit raised, with run_command not gated.
C3_Witness ==
    /\ last_call.op = "execute_tool"
    /\ last_call.name = "vcs_commit"
    /\ PolicyGates("vcs_commit")
    /\ ~PolicyGates("run_command")
    /\ outcome = ToolError(ApprovalRequiredError("vcs_commit"))
    /\ tool_calls = <<>>

\* ------------------------------------------------------------------------
\* Claims about the approval gate
\* ------------------------------------------------------------------------

C17_RequiresApprovalTable ==
    last_call.op = "execute_tool" =>
        last_call.required =
            IF policy.mode # "approval-required" THEN FALSE
            ELSE IF last_call.name = "run_command" THEN policy.require_execution_approval
            ELSE IF last_call.name = "vcs_commit" THEN policy.require_commit_approval
            ELSE FALSE

\* Under approval-required with only commits flagged, requires_approval
\* answered true for vcs_commit.
C17_Witness ==
    /\ last_call.op = "execute_tool"
    /\ policy.mode = "approval-required"
    /\ ~policy.require_execution_approval
    /\ policy.require_commit_approval
    /\ last_call.name = "vcs_commit"
    /\ last_call.required

\* The responses of the last round trip that carry a decision for its
\* request: the id of the request, a boolean approved and a string approver.
WellFormedMatches ==
    {j \in DOMAIN last_call.responses :
        /\ last_call.responses[j]["approval_request_id"]
              = [type |-> "str", val |-> last_call.request_id]
        /\ last_call.responses[j]["approved"].type = "bool"
        /\ last_call.responses[j]["approver"].type = "str"}

\* C18: the decision of the gate is that of the first response, in the order
\* returned, that names the allocated id and has a boolean approved and a
\* string approver; responses before it that name another id or have wrongly
\* typed fields are passed over, and responses after it change nothing.
C18_FirstMatchingResponseWins ==
    (last_call.responses # <<>> /\ WellFormedMatches # {}) =>
        LET first == CHOOSE j \in WellFormedMatches :
                        \A k \in WellFormedMatches : j <= k
        IN /\ last_call.decision.kind = "decision"
           /\ last_call.decision.approved =
                 (last_call.responses[first]["approved"].val = <<"true">>)
           /\ last_call.decision.approver = last_call.responses[first]["approver"].val
           /\ last_call.decision.notes = last_call.responses[first]["notes"]

\* The proxy answered request approval-1 with an approval and then with a
\* rejection that has notes: the gate approved.
C18_Witness ==
    /\ last_call.op = "request_approval"
    /\ last_call.request_id = <<"approval-", "1">>
    /\ Len(last_call.responses) = 2
    /\ WellFormedMatches = {1, 2}
    /\ last_call.responses[1]["approved"] = Bool(TRUE)
    /\ last_call.responses[2]["approved"] = Bool(FALSE)
    /\ last_call.responses[2]["notes"] = Str(<<"why">>)
    /\ last_call.decision.approved
    /\ last_call.decision.notes = None

\* The last call went through the gate under approval-required.
AskedProxy ==
    /\ policy.mode = "approval-required"
    /\ \/ last_call.op = "request_approval"
       \/ last_call.op = "execute_tool_with_approval" /\ last_call.gated

\* C19: under approval-required, when the proxy is not registered or none
\* of its responses carries a well-formed decision for the request, the
\* call raises OrchestratorError and the tool is not invoked; the proxy is
\* asked at most once per call and one id is used per call.
C19_NoDecisionRaises ==
    /\ (AskedProxy /\ (~proxy_registered \/ WellFormedMatches = {})) =>
          /\ outcome.kind = "error"
          /\ outcome.error \in
                {<<"User proxy agent '", "user_proxy", "' is not registered.">>,
                 <<"User proxy did not return a decision for request '",
                   "approval-", Digits[approval_counter], "'.">>}
          /\ last_call.decision.kind = "none"
          /\ last_call.invoked = 0
    /\ Len(proxy_calls) <= calls_made
    /\ approval_counter <= calls_made

\* A gated run_command went to the registered proxy, whose one response
\* names another request: the call raised, the tool was not invoked and the
\* proxy was asked once.
C19_Witness ==
    /\ AskedProxy
    /\ proxy_registered
    /\ last_call.op = "execute_tool_with_approval"
    /\ last_call.name = "run_command"
    /\ Len(last_call.responses) = 1
    /\ WellFormedMatches = {}
    /\ outcome.error = <<"User proxy did not return a decision for request '",
                         "approval-", "1", "'.">>
    /\ tool_calls = <<>>
    /\ Len(proxy_calls) = 1

\* C20 as stated: once request_approval has returned a decision for a
\* request, the request's id is no longer a key of the pending approvals.
C20_PendingApprovalConsumed ==
    (/\ last_call.op = "request_approval"
     /\ policy.mode = "approval-required"
     /\ last_call.decision.kind = "decision") =>
        last_call.request_id \notin DOMAIN pending_approvals

\* ------------------------------------------------------------------------
\* Specification of saved and restored workflow state
\* ------------------------------------------------------------------------

\* Largest number of messages in the history and in the pending_messages of
\* a state handed to save_state.
MaxStored == 2

\* Largest approval_counter of a state handed to save_state.
MaxCounter == 2

\* The i-th message of a task between a and b: the seed, then answers.
StoredMessage(i) ==
    IF i = 1
    THEN AgentMessage("user", "a", TaskDescription,
                      SetDefault(EmptyMetadata, "task_id", TaskId))
    ELSE AgentMessage(IF i % 2 = 0 THEN "a" ELSE "b", IF i % 2 = 0 THEN "b" ELSE "a",
                      ContentOf[1], SetDefault(EmptyMetadata, "task_id", TaskId))

\* The approval requests a state with counter n may still hold: none, or
\* those of the ids approval-1 .. approval-n.
StoredApprovals(n) ==
    {[key \in {ApprovalId(k) : k \in 1..j} |->
         ApprovalRequest("vcs_commit", <<"Commit changes">>,
                         [tool |-> Str(<<"vcs_commit">>)])] : j \in {0, n}}

\* The states a caller hands over: of the task at hand, of another task, or
\* of the same task started at another agent.
GivenStates ==
    {[WorkflowState(agent,
                    [i \in 1..n |-> StoredMessage(Len(hist) + i)],
                    hist, Len(hist) + extra, counter, approvals)
         EXCEPT !.task_id = tid] :
        tid \in {TaskId, "t2"}, agent \in {"a", "b"},
        n \in 0..MaxStored,
        hist \in {[i \in 1..k |-> StoredMessage(i)] : k \in 0..MaxStored},
        extra \in {0, 1}, counter \in 0..MaxCounter,
        approvals \in UNION {StoredApprovals(c) : c \in 0..MaxCounter}}

\* save_state(given, path) by the caller, outside a run.
SaveStateCall ==
    /\ pc = "idle"
    /\ checkpoint.writes = 0
    /\ checkpoint' = SaveState(given, checkpoint)
    /\ UNCHANGED <<runVars, gateVars, toolVars, given, checkpoint_path, loaded, callVars, vcsVars, taskVars, registryVars>>

\* load_state(path) by the caller, outside a run.
LoadStateCall ==
    /\ pc = "idle"
    /\ checkpoint.writes > 0
    /\ loaded = NoLoad
    /\ loaded' = LoadState(checkpoint.payload)
    /\ UNCHANGED <<runVars, gateVars, toolVars, given, checkpoint_path, checkpoint,
                   callVars, vcsVars, taskVars, registryVars>>

\* asyncio.run(run_task_async(task, max_steps = M, state = loaded state,
\* checkpoint_path = path)) for the task (TaskId, initial_agent_id).
RunTaskAsyncCall(M, path) ==
    /\ pc = "idle"
    /\ phase = "none"
    /\ loaded.kind = "state"
    /\ phase' = "resumed"
    /\ running_loop' = running_loop + 1
    /\ checkpoint_path' = path
    /\ RunTaskAsync(TaskId, initial_agent_id, M, loaded.state)
    /\ supersteps' = 0
    /\ UNCHANGED <<behaviour, initial_agent_id, first_budget, snapshot, toolVars, given,
                   checkpoint, loaded, callVars, vcsVars, initial_metadata, registryVars>>

\* snapshot_state(task, result.history, result.messages_processed) after the
\* run from a state returned.
SnapshotResumed ==
    /\ pc = "returned"
    /\ phase = "resumed"
    /\ snapshot = NoState
    /\ snapshot' = SnapshotOf(result.history, result.messages_processed)
    /\ UNCHANGED <<behaviour, initial_agent_id, pc, phase, max_steps, first_budget,
                   queue, history, processed, batch, status, results, completion,
                   agent_locks, running_loop, result, gateVars, toolVars, stateVars,
                   callVars, vcsVars, taskVars, registryVars>>

\* The agents of the task at hand: a hands on to b, and b either ends the
\* task or answers a, which then answers b twice.
StateBehaviours ==
    {[g \in Registered |-> IF g = "a" THEN <<"b">> ELSE <<>>],
     [g \in Registered |-> IF g = "a" THEN <<"b", "b">> ELSE <<"a">>],
     [g \in Registered |-> IF g = "a" THEN <<"b", "x">> ELSE <<"a">>]}

\* The request and the answer of the one approval asked outside the run.
StateRequest == ApprovalRequest("vcs_commit", <<"Commit changes">>, EmptyMetadata)

StateReply ==
    [echo |-> TRUE, approved |-> Bool(TRUE), approver |-> Str(<<"tester">>), notes |-> None]

InitState ==
    /\ behaviour \in StateBehaviours
    /\ initial_agent_id = "a"
    /\ pc = "idle"
    /\ phase = "none"
    /\ max_steps = 0
    /\ first_budget = 0
    /\ queue = <<>>
    /\ history = <<>>
    /\ processed = 0
    /\ batch = <<>>
    /\ status = <<>>
    /\ results = <<>>
    /\ completion = <<>>
    /\ agent_locks = [g \in Registered |-> [locked |-> FALSE, loop |-> 0]]
    /\ running_loop = 0
    /\ result = NoResult
    /\ snapshot = NoState
    /\ approval_counter = 0
    /\ pending_approvals = EmptyMetadata
    /\ policy = ApprovalPolicy("approval-required", FALSE, TRUE)
    /\ proxy_registered = TRUE
    /\ tool_calls = <<>>
    /\ proxy_calls = <<>>
    /\ last_call = NoCall
    /\ outcome = NoOutcome
    /\ calls_made = 0
    /\ given \in GivenStates
    /\ given.approval_counter = 0 => given.pending_approvals = EmptyMetadata
    /\ DOMAIN given.pending_approvals \subseteq
          {ApprovalId(k) : k \in 1..given.approval_counter}
    /\ checkpoint_path = FALSE
    /\ checkpoint = NoFile
    /\ loaded = NoLoad
    /\ callers = NoCallers
    /\ commit_arguments = EmptyMetadata
    /\ commits = <<>>
    /\ commit_outcome = NoOutcome
    /\ initial_metadata = EmptyMetadata
    /\ supersteps = 0
    /\ RegistryUnused

NextState ==
    \/ SaveStateCall
    \/ LoadStateCall
    \/ \E M \in 0..MaxBudget, path \in BOOLEAN : RunTaskAsyncCall(M, path)
    \/ Superstep
    \/ \E i \in DOMAIN status : LockAcquire(i)
    \/ \E i \in DOMAIN status : HandleReturn(i)
    \/ \E i \in DOMAIN status : HandleRaise(i)
    \/ \E i \in DOMAIN status : AbandonedHandlerReturns(i)
    \/ GatherDone
    \/ Return
    \/ SnapshotResumed
    \/ RequestApprovalCall(StateRequest, <<StateReply>>)

StateSpec == InitState /\ [][NextState]_vars

\* ------------------------------------------------------------------------
\* Claims about saved and restored workflow state
\* ------------------------------------------------------------------------

\* C11: what from_dict makes of to_dict(state) is the state again, with its
\* task fields, both message lists in order, both counters and every pending
\* approval; it never raises.
C11_RoundTrip ==
    loaded # NoLoad =>
        /\ loaded.kind = "state"
        /\ loaded.state = given

\* A state with pending messages, history, a counter and two pending
\* approvals came back from the file.
C11_Witness ==
    /\ loaded.kind = "state"
    /\ Len(loaded.state.pending_messages) = MaxStored
    /\ Len(loaded.state.history) = MaxStored
    /\ loaded.state.pending_messages[1].metadata # EmptyMetadata
    /\ loaded.state.messages_processed > 0
    /\ loaded.state.approval_counter = 2
    /\ DOMAIN loaded.state.pending_approvals = {ApprovalId(1), ApprovalId(2)}

\* The loaded state is of another task, or of this task started at another
\* agent.
StateMismatch ==
    /\ loaded.kind = "state"
    /\ \/ loaded.state.task_id # TaskId
       \/ loaded.state.initial_agent_id # initial_agent_id

\* C12: a run started from a state whose task_id or initial_agent_id is not
\* the task's raises OrchestratorError at once: the queue, the approval
\* counter, the pending approvals, the history and the count keep the values
\* they had before the call, and no message is dispatched then or later.
C12_MismatchRaisesBeforeRestore ==
    [][/\ (phase = "none" /\ phase' = "resumed" /\ StateMismatch) =>
             /\ pc' = "raised"
             /\ result'.kind = "error"
             /\ result'.error \in {<<"Task ID does not match workflow state.">>,
                                   <<"Initial agent does not match workflow state.">>}
             /\ queue' = queue
             /\ approval_counter' = approval_counter
             /\ pending_approvals' = pending_approvals
             /\ history' = history
             /\ processed' = processed
             /\ batch' = batch
       /\ (phase = "resumed" /\ StateMismatch) =>
             /\ pc' = "raised"
             /\ history' = history
             /\ batch' = batch
             /\ status' = status]_vars

\* The run raised for a state of another task that has pending messages and
\* a counter of 2, on an orchestrator that had allocated approval-1: its
\* queue is still empty and its counter still 1.
C12_Witness ==
    /\ phase = "resumed"
    /\ pc = "raised"
    /\ loaded.state.task_id # TaskId
    /\ loaded.state.pending_messages # <<>>
    /\ loaded.state.approval_counter = 2
    /\ result = OrchestratorError(<<"Task ID does not match workflow state.">>)
    /\ queue = <<>>
    /\ approval_counter = 1
    /\ DOMAIN pending_approvals = {ApprovalId(1)}

\* The budget of the run lets the loop make no superstep from the loaded
\* state.
NoSuperstepPermitted ==
    \/ loaded.state.pending_messages = <<>>
    \/ max_steps <= loaded.state.messages_processed

\* C13: a run started from a state of the task leaves the orchestrator with
\* exactly the state's queue, history, count, approval counter and pending
\* approvals; when the budget permits no superstep, snapshot_state of the
\* returned history and count is the state again; and the first approval id
\* allocated after the resume is approval-(counter of the state + 1),
\* recorded next to the state's pending approvals.
C13_RestoredExactly ==
    [][/\ (phase = "none" /\ phase' = "resumed" /\ ~StateMismatch) =>
             /\ pc' = "loop"
             /\ queue' = loaded.state.pending_messages
             /\ history' = loaded.state.history
             /\ processed' = loaded.state.messages_processed
             /\ approval_counter' = loaded.state.approval_counter
             /\ pending_approvals' = loaded.state.pending_approvals
       /\ (/\ phase = "resumed"
           /\ pc = "returned"
           /\ calls_made = 0
           /\ NoSuperstepPermitted
           /\ snapshot' # snapshot) =>
             snapshot' = loaded.state
       /\ (/\ phase = "resumed"
           /\ calls_made = 0
           /\ calls_made' = 1) =>
             /\ approval_counter' = loaded.state.approval_counter + 1
             /\ last_call'.request_id =
                   <<"approval-", Digits[loaded.state.approval_counter + 1]>>
             /\ DOMAIN pending_approvals' =
                   DOMAIN loaded.state.pending_approvals \cup {last_call'.request_id}
             /\ \A key \in DOMAIN loaded.state.pending_approvals :
                   pending_approvals'[key] = loaded.state.pending_approvals[key]]_vars

\* A state with two pending messages, history, counter 2 and two pending
\* approvals was resumed with a budget already used up; the snapshot taken
\* after the return is that state, and the approval asked next is approval-3.
C13_Witness ==
    /\ phase = "resumed"
    /\ pc = "returned"
    /\ Len(loaded.state.pending_messages) = 2
    /\ loaded.state.history # <<>>
    /\ loaded.state.approval_counter = 2
    /\ DOMAIN loaded.state.pending_approvals = {ApprovalId(1), ApprovalId(2)}
    /\ max_steps > 0
    /\ snapshot = loaded.state
    /\ last_call.op = "request_approval"
    /\ last_call.request_id = <<"approval-", "3">>
    /\ approval_counter = 3

\* C14: a checkpoint is written during a run only when every handler of the
\* batch has returned and no agent lock is held; it lists every message
\* produced so far exactly once, the dispatched ones in history and the
\* others in pending_messages, in the order of production; and with a
\* checkpoint path every completed superstep writes one, without a path none
\* is written.
C14_CheckpointsQuiescent ==
    [][/\ (pc # "idle" /\ checkpoint' # checkpoint) =>
             /\ \A i \in DOMAIN status : status[i] = "done"
             /\ \A g \in Registered : ~agent_locks[g].locked
             /\ LET written == LoadState(checkpoint'.payload)
                    produced == FifoRun(loaded.state.pending_messages,
                                        loaded.state.history,
                                        processed' - loaded.state.messages_processed)
                IN /\ written.kind = "state"
                   /\ written.state.history = produced.history
                   /\ written.state.pending_messages = produced.queue
                   /\ written.state.messages_processed = processed'
                   /\ Len(written.state.history) =
                         Len(loaded.state.history)
                         + processed' - loaded.state.messages_processed
       /\ (pc = "gather" /\ pc' = "loop") =>
             IF checkpoint_path
             THEN checkpoint'.writes = checkpoint.writes + 1
             ELSE checkpoint' = checkpoint]_vars

\* Two supersteps of a run with a checkpoint path have completed (the file
\* was written once before the run), the second with two handlers of b, and
\* the checkpoint holds dispatched and pending messages.
C14_Witness ==
    /\ checkpoint_path
    /\ phase = "resumed"
    /\ pc = "loop"
    /\ checkpoint.writes = 3
    /\ Len(batch) = 2
    /\ LoadState(checkpoint.payload).state.history = history
    /\ Len(history) >= 3
    /\ LoadState(checkpoint.payload).state.pending_messages = queue
    /\ queue # <<>>

\* ------------------------------------------------------------------------
\* Specification of concurrent callers of the approval gate
\* ------------------------------------------------------------------------

\* Largest number of request_approval calls of one agent's handlers.
MaxRequests == 1

\* The request of agent g's handler.
RequestOf(g) == ApprovalRequest("vcs_commit", <<"Commit changes of ", g>>, EmptyMetadata)

\* The handler of agent g runs in a worker thread (asyncio.to_thread).
HandlerRunning(g) ==
    /\ pc = "gather"
    /\ \E i \in DOMAIN status : batch[i].recipient = g /\ status[i] = "running"

\* _next_approval_id in g's thread, first half of `self._approval_counter
\* += 1`: the counter is read. Nothing synchronises the threads, so another
\* thread may run between any two of these steps.
LoadCounter(g) ==
    /\ HandlerRunning(g)
    /\ policy.mode = "approval-required"
    /\ callers[g].at = "idle"
    /\ Len(callers[g].ids) < MaxRequests
    /\ callers' = [callers EXCEPT ![g].at = "loaded", ![g].seen = approval_counter]
    /\ UNCHANGED <<runVars, gateVars, toolVars, stateVars, vcsVars, taskVars, registryVars>>

\* Second half of the increment: the value read, plus one, is stored.
StoreCounter(g) ==
    /\ callers[g].at = "loaded"
    /\ approval_counter' = callers[g].seen + 1
    /\ callers' = [callers EXCEPT ![g].at = "stored"]
    /\ UNCHANGED <<runVars, pending_approvals, toolVars, stateVars, vcsVars, taskVars, registryVars>>

\* The return statement reads the counter again to build the id.
NameRequest(g) ==
    /\ callers[g].at = "stored"
    /\ callers' = [callers EXCEPT ![g].at = "named",
                                  ![g].ids = Append(@, ApprovalId(approval_counter))]
    /\ UNCHANGED <<runVars, gateVars, toolVars, stateVars, vcsVars, taskVars, registryVars>>

\* request_approval records the request under the id it got and calls the
\* proxy's handle_message, in the handler's own thread.
RecordPending(g) ==
    /\ callers[g].at = "named"
    /\ pending_approvals' = Put(pending_approvals,
                                callers[g].ids[Len(callers[g].ids)], RequestOf(g))
    /\ proxy_calls' =
          Append(proxy_calls,
                 AgentMessage("orchestrator", policy.user_proxy_agent_id,
                              RequestOf(g).description,
                              [approval_request_id |->
                                  Str(callers[g].ids[Len(callers[g].ids)])]))
    /\ callers' = [callers EXCEPT ![g].at = "asking"]
    /\ UNCHANGED <<runVars, approval_counter, policy, proxy_registered, tool_calls,
                   last_call, outcome, calls_made, stateVars, vcsVars, taskVars, registryVars>>

\* The proxy's handle_message returns its decision and the handler goes on.
ProxyReturn(g) ==
    /\ callers[g].at = "asking"
    /\ callers' = [callers EXCEPT ![g].at = "idle"]
    /\ UNCHANGED <<runVars, gateVars, toolVars, stateVars, vcsVars, taskVars, registryVars>>

\* a answers every message with one message to a and one to b, so that from
\* the second superstep on both handlers run in the same batch.
GateBehaviours ==
    {[g \in Registered |-> IF g = "a" THEN <<"a", "b">> ELSE <<>>],
     [g \in Registered |-> IF g = "a" THEN <<"b", "a">> ELSE <<"b">>]}

InitGate ==
    /\ behaviour \in GateBehaviours
    /\ initial_agent_id = "a"
    /\ pc = "idle"
    /\ phase = "none"
    /\ max_steps = 0
    /\ first_budget = 0
    /\ queue = <<>>
    /\ history = <<>>
    /\ processed = 0
    /\ batch = <<>>
    /\ status = <<>>
    /\ results = <<>>
    /\ completion = <<>>
    /\ agent_locks = [g \in Registered |-> [locked |-> FALSE, loop |-> 0]]
    /\ running_loop = 0
    /\ result = NoResult
    /\ snapshot = NoState
    /\ approval_counter = 0
    /\ pending_approvals = EmptyMetadata
    /\ policy = ApprovalPolicy("approval-required", TRUE, TRUE)
    /\ proxy_registered = TRUE
    /\ tool_calls = <<>>
    /\ proxy_calls = <<>>
    /\ last_call = NoCall
    /\ outcome = NoOutcome
    /\ calls_made = 0
    /\ NothingStored
    /\ callers = NoCallers
    /\ commit_arguments = EmptyMetadata
    /\ commits = <<>>
    /\ commit_outcome = NoOutcome
    /\ initial_metadata = EmptyMetadata
    /\ supersteps = 0
    /\ RegistryUnused

NextGate ==
    \/ \E N \in 1..MaxBudget : RunTask(N)
    \/ Superstep
    \/ \E i \in DOMAIN status : LockAcquire(i)
    \/ \E i \in DOMAIN status : HandleReturn(i)
    \/ GatherDone
    \/ Return
    \/ \E g \in Registered : LoadCounter(g)
    \/ \E g \in Registered : StoreCounter(g)
    \/ \E g \in Registered : NameRequest(g)
    \/ \E g \in Registered : RecordPending(g)
    \/ \E g \in Registered : ProxyReturn(g)

GateSpec == InitGate /\ [][NextGate]_vars

\* ------------------------------------------------------------------------
\* Claims about concurrent callers of the approval gate
\* ------------------------------------------------------------------------

\* All ids handed out so far, caller by caller.
IdsHandedOut == callers["a"].ids \o callers["b"].ids

\* C15: whatever the interleaving of the handlers, the ids they got from
\* request_approval are pairwise different; and once no handler is inside
\* request_approval the counter has advanced by the number of ids handed out
\* and every request is recorded under the id its caller got.
C15_UniqueApprovalIds ==
    /\ \A i, j \in DOMAIN IdsHandedOut :
          i # j => IdsHandedOut[i] # IdsHandedOut[j]
    /\ (\A g \in Registered : callers[g].at = "idle") =>
          /\ approval_counter = Len(IdsHandedOut)
          /\ \A g \in Registered : \A k \in DOMAIN callers[g].ids :
                /\ callers[g].ids[k] \in DOMAIN pending_approvals
                /\ pending_approvals[callers[g].ids[k]] = RequestOf(g)

\* The handlers whose request_approval call is inside the proxy's
\* handle_message.
AskingProxy == {g \in Registered : callers[g].at = "asking"}

\* C29: no two handle calls of one agent instance are in progress at once:
\* neither two dispatches of a superstep to the same recipient, nor two calls
\* of the proxy's handle_message made by the approval gate for handlers that
\* run concurrently.
C29_HandleCallsNeverOverlap ==
    /\ \A i, j \in DOMAIN status :
          (i < j /\ batch[i].recipient = batch[j].recipient) =>
              ~(status[i] = "running" /\ status[j] = "running")
    /\ Cardinality(AskingProxy) <= 1

\* ------------------------------------------------------------------------
\* Claims about failing runs
\* ------------------------------------------------------------------------

\* C21: when a dispatch of a superstep raises (an unknown recipient, or a
\* handler that raises), the run raises that error: nothing is added to the
\* queue, the count stays, no checkpoint is written then or later, no further
\* superstep starts, and a checkpoint file written by the run still holds the
\* state before the failed batch was dispatched.
C21_FatalErrorAbortsRun ==
    [][/\ (pc \in {"loop", "gather"} /\ pc' = "raised") =>
             /\ result'.kind = "error"
             /\ queue' = <<>>
             /\ processed' = processed
             /\ checkpoint' = checkpoint
       /\ pc = "raised" =>
             /\ pc' = "raised"
             /\ result' = result
             /\ queue' = queue
             /\ history' = history
             /\ processed' = processed
             /\ batch' = batch
             /\ checkpoint' = checkpoint
       /\ (pc' = "raised" /\ checkpoint_path /\ checkpoint'.writes >= 2) =>
             LET written == LoadState(checkpoint'.payload).state
             IN /\ written.history \o batch' = history'
                /\ written.pending_messages = batch'
                /\ written.messages_processed = processed']_vars

\* A run with a checkpoint path completed two supersteps and raised in the
\* third for the unregistered x: the file, written three times, holds the
\* failed batch as pending messages.
C21_Witness ==
    /\ pc = "raised"
    /\ result = OrchestratorError(<<"Unknown agent: ", "x">>)
    /\ checkpoint_path
    /\ checkpoint.writes = 3
    /\ Len(batch) >= 2
    /\ queue = <<>>
    /\ LoadState(checkpoint.payload).state.pending_messages = batch
    /\ LoadState(checkpoint.payload).state.messages_processed = processed

\* C30: when a message of a batch names a recipient that is not registered,
\* the run fails with the unknown-agent error and no handler has been invoked
\* for any message of that batch.
C30_NoHandlerRunsInFailedBatch ==
    (/\ pc = "raised"
     /\ \E i \in DOMAIN batch : batch[i].recipient \in Unregistered
     /\ \E i \in DOMAIN batch : result = OrchestratorError(UnknownAgent(batch[i].recipient))) =>
        \A i \in DOMAIN status : status[i] # "done"

\* ------------------------------------------------------------------------
\* Claims about tools
\* ------------------------------------------------------------------------

\* The last call was a direct execute_tool that reached Tool.execute.
ToolWasInvoked ==
    /\ last_call.op = "execute_tool"
    /\ last_call.invoked = 1

\* C22 as stated: when the tool raises, execute_tool raises an error whose
\* text carries the tool's name and the caller; when the tool returns a
\* result with success = false, execute_tool returns that result.
C22_ToolFailureTagged ==
    ToolWasInvoked =>
        /\ outcome.kind = "error" =>
              /\ \E i \in DOMAIN outcome.error : outcome.error[i] = last_call.name
              /\ \E i \in DOMAIN outcome.error : <<outcome.error[i]>> = Caller
        /\ (outcome.kind = "result" /\ ~outcome.success) =>
              outcome = [kind |-> "result", name |-> last_call.name, success |-> FALSE,
                         output |-> EmptyMetadata, error |-> <<"failed">>]

\* C23: executing a name that is not registered raises OrchestratorError
\* with the text of the registry's error, which names the tool, and no tool
\* is invoked, whether the call is execute_tool or
\* execute_tool_with_approval.
C23_UnknownToolRaises ==
    [][(/\ calls_made' # calls_made
        /\ last_call'.op \in {"execute_tool", "execute_tool_with_approval"}
        /\ last_call'.name \notin {"run_command", "vcs_commit", "read_file"}) =>
           /\ outcome'.kind = "error"
           /\ outcome'.error = <<"Tool '", last_call'.name, "' is not registered">>
           /\ last_call'.invoked = 0
           /\ tool_calls' = tool_calls]_vars

\* execute_tool was called for no_such_tool under a policy that gates both
\* classes of tools.
C23_Witness ==
    /\ last_call.op = "execute_tool"
    /\ last_call.name = "no_such_tool"
    /\ policy = ApprovalPolicy("approval-required", TRUE, TRUE)
    /\ outcome.error = <<"Tool '", "no_such_tool", "' is not registered">>
    /\ tool_calls = <<>>

\* ------------------------------------------------------------------------
\* The commit tool
\* ------------------------------------------------------------------------

MaxCommitCalls == 2

CommitRequiresApproval == <<"Commit requires explicit ", "approval", ".">>

\* bool(v)
Truthy(v) ==
    \/ v = Bool(TRUE)
    \/ v.type = "int" /\ v.val # 0
    \/ v.type = "str" /\ v.val # <<>>

\* VersionControlService.commit(message, stage_all): the commit made, or the
\* service's error.
ServiceCommit(message, stage_all, made, does) ==
    IF does = "commit"
    THEN [kind |-> "commit", commit_hash |-> Str(<<"h", Digits[made + 1]>>),
          message |-> Str(message)]
    ELSE [kind |-> "version_control_error", commit_hash |-> None, message |-> None]

\* The rest of VCSCommitTool.execute once the approval has been seen.
CommitApproved(arguments, made, does) ==
    LET message == Get(arguments, "message")
        stage_all == Get(arguments, "stage_all")
    IN IF ~IsStr(message) \/ Strip(message.val) = <<>>
       THEN [outcome |-> ToolExecutionError(<<"'message' must be a non-empty string">>),
             commits |-> <<>>]
       ELSE IF stage_all # None /\ ~IsBool(stage_all)
       THEN [outcome |-> ToolExecutionError(<<"'stage_all' must be a bool or null">>),
             commits |-> <<>>]
       ELSE LET staged == IF stage_all # None THEN stage_all = Bool(TRUE) ELSE TRUE
                call == [message |-> Strip(message.val), stage_all |-> staged]
                made_commit == ServiceCommit(call.message, staged, made, does)
            IN IF made_commit.kind = "version_control_error"
               THEN [outcome |-> [kind |-> "version_control_error", name |-> "",
                                  success |-> FALSE, output |-> EmptyMetadata,
                                  error |-> <<"commit failed">>],
                     commits |-> <<call>>]
               ELSE [outcome |-> ToolResult("vcs_commit", TRUE,
                                     [commit_hash |-> made_commit.commit_hash,
                                      message |-> made_commit.message,
                                      approver |-> Get(arguments, "approver")],
                                     <<>>),
                     commits |-> <<call>>]

\* A commit tool that takes any true value of approved for the approval.
VCSCommitExecuteOnTruthy(arguments, made, does) ==
    IF ~Truthy(Get(arguments, "approved"))
    THEN [outcome |-> ToolResult("vcs_commit", FALSE, EmptyMetadata,
                                 CommitRequiresApproval),
          commits |-> <<>>]
    ELSE CommitApproved(arguments, made, does)

\* VCSCommitTool.execute(arguments): what it returns or raises and the calls
\* of the service's commit it makes.
VCSCommitExecute(arguments, made, does) ==
    IF Get(arguments, "approved") # Bool(TRUE)
    THEN [outcome |-> ToolResult("vcs_commit", FALSE, EmptyMetadata,
                                 CommitRequiresApproval),
          commits |-> <<>>]
    ELSE CommitApproved(arguments, made, does)

VCSCommitCall(does) ==
    /\ Len(commits) < MaxCommitCalls
    /\ LET done == VCSCommitExecute(commit_arguments, Len(commits), does)
       IN /\ commit_outcome' = done.outcome
          /\ commits' = commits \o done.commits
    /\ UNCHANGED <<runVars, gateVars, toolVars, stateVars, callVars, commit_arguments,
                   taskVars, registryVars>>

\* Dictionaries with any subset of the given keys, each with one of its values.
Choices(values) ==
    UNION {[keys -> UNION {values[k] : k \in keys}] : keys \in SUBSET DOMAIN values}

CommitArguments ==
    LET values == [approved |-> {Bool(TRUE), Bool(FALSE), Number(1), Number(0),
                                 Str(<<"true">>), None},
                   message |-> {Str(<<"fix">>), Str(<<" ", "fix", " ">>), Str(<<" ">>),
                                Str(<<>>), Number(1)},
                   stage_all |-> {Bool(TRUE), Bool(FALSE), None, Number(1)},
                   approver |-> {Str(<<"alice">>)}]
    IN {d \in Choices(values) : \A k \in DOMAIN d : d[k] \in values[k]}

InitVcs ==
    /\ behaviour = [g \in Registered |-> <<>>]
    /\ initial_agent_id = "a"
    /\ pc = "idle"
    /\ phase = "none"
    /\ max_steps = 0
    /\ first_budget = 0
    /\ queue = <<>>
    /\ history = <<>>
    /\ processed = 0
    /\ batch = <<>>
    /\ status = <<>>
    /\ results = <<>>
    /\ completion = <<>>
    /\ agent_locks = [g \in Registered |-> [locked |-> FALSE, loop |-> 0]]
    /\ running_loop = 0
    /\ result = NoResult
    /\ snapshot = NoState
    /\ approval_counter = 0
    /\ pending_approvals = EmptyMetadata
    /\ policy = ApprovalPolicy("autonomous", TRUE, TRUE)
    /\ proxy_registered = FALSE
    /\ tool_calls = <<>>
    /\ proxy_calls = <<>>
    /\ last_call = NoCall
    /\ outcome = NoOutcome
    /\ calls_made = 0
    /\ NothingStored
    /\ callers = NoCallers
    /\ commit_arguments \in CommitArguments
    /\ commits = <<>>
    /\ commit_outcome = NoOutcome
    /\ initial_metadata = EmptyMetadata
    /\ supersteps = 0
    /\ RegistryUnused

NextVcs == \E does \in {"commit", "raise"} : VCSCommitCall(does)

VcsSpec == InitVcs /\ [][NextVcs]_vars

\* ------------------------------------------------------------------------
\* Claims about the commit tool
\* ------------------------------------------------------------------------

\* C24: the service's commit is called only for arguments whose approved is
\* the value true itself; for approved absent, false or anything else the
\* tool returns success=false with an error that mentions approval and the
\* service is never called.
C24_CommitNeedsApprovedTrue ==
    LET exactly_true == /\ "approved" \in DOMAIN commit_arguments
                        /\ commit_arguments.approved = Bool(TRUE)
    IN /\ commits # <<>> => exactly_true
       /\ (commit_outcome # NoOutcome /\ ~exactly_true) =>
             /\ commit_outcome.kind = "result"
             /\ ~commit_outcome.success
             /\ \E k \in DOMAIN commit_outcome.error :
                   commit_outcome.error[k] = "approval"
             /\ commits = <<>>

\* The tool was called with approved = 1 and a good message, and refused.
C24_Witness ==
    /\ "approved" \in DOMAIN commit_arguments
    /\ commit_arguments.approved = Number(1)
    /\ Get(commit_arguments, "message") = Str(<<"fix">>)
    /\ commit_outcome = ToolResult("vcs_commit", FALSE, EmptyMetadata,
                                   CommitRequiresApproval)
    /\ commits = <<>>

\* ------------------------------------------------------------------------
\* Claims about scenarios and messages
\* ------------------------------------------------------------------------

\* a answers every message with one message to b, b answers with nothing.
ScenarioA ==
    /\ initial_agent_id = "a"
    /\ behaviour = [g \in Registered |-> IF g = "a" THEN <<"b">> ELSE <<>>]

\* C25: in scenario A a fresh run with a budget of at least two messages
\* never raises and returns completed = true, messages_processed = 2 and the
\* history [user->a, a->b]; the last batch dispatched is a's message to b,
\* and b has handled it.
C25_ScenarioA ==
    LET answer == AgentMessage("a", "b", ContentOf[1], [task_id |-> TaskId])
    IN (ScenarioA /\ running_loop = 1 /\ pc \in {"returned", "raised"}
                  /\ max_steps >= 2) =>
          /\ pc = "returned"
          /\ result = TaskResult(TRUE, 2, <<InitialMessage, answer>>)
          /\ batch = <<answer>>
          /\ status = <<"done">>

\* Scenario A has returned from a run with the largest budget.
C25_Witness ==
    /\ ScenarioA
    /\ FreshRunReturned
    /\ max_steps = MaxBudget
    /\ result.completed
    /\ result.messages_processed = 2
    /\ Len(result.history) = 2

\* The responses of a batch as the handlers returned them, in batch order.
RECURSIVE Flatten(_)
Flatten(res) == IF res = <<>> THEN <<>> ELSE Head(res) \o Flatten(Tail(res))

\* C26: when a superstep's responses are collected, each is queued with a
\* task_id in its metadata: the running task's id when the agent supplied
\* none, the agent's own value otherwise; every other key, and every other
\* field of the message, is as the agent returned it.
C26_TaskIdBackFilled ==
    [][(pc = "gather" /\ pc' = "loop") =>
         LET raw == Flatten(results)
             new == SubSeq(queue', Len(queue) + 1, Len(queue'))
         IN /\ Len(new) = Len(raw)
            /\ \A k \in DOMAIN raw :
                  /\ DOMAIN new[k].metadata = DOMAIN raw[k].metadata \cup {"task_id"}
                  /\ \A key \in DOMAIN raw[k].metadata :
                        new[k].metadata[key] = raw[k].metadata[key]
                  /\ "task_id" \notin DOMAIN raw[k].metadata =>
                        new[k].metadata.task_id = TaskId
                  /\ new[k].sender = raw[k].sender
                  /\ new[k].recipient = raw[k].recipient
                  /\ new[k].content = raw[k].content]_vars

\* The queue holds a response that kept the agent's own task id, one that was
\* given the task's id and one that carries another key beside it.
C26_Witness ==
    /\ pc = "loop"
    /\ \E k \in DOMAIN queue : queue[k].metadata = [task_id |-> "t9"]
    /\ \E k \in DOMAIN queue : queue[k].metadata = [task_id |-> TaskId]
    /\ \E k \in DOMAIN queue :
          queue[k].metadata = [priority |-> "high", task_id |-> TaskId]

\* ------------------------------------------------------------------------
\* Specification of runs of tasks that carry initial metadata
\* ------------------------------------------------------------------------

InitialMetadatas ==
    {EmptyMetadata, [source |-> "cli"], [task_id |-> TaskId], [task_id |-> "other"],
     [task_id |-> "other", source |-> "cli"], [source |-> "cli", priority |-> "high"]}

SeedBehaviours ==
    {[g \in Registered |-> IF g = "a" THEN <<"b">> ELSE <<>>],
     [g \in Registered |-> IF g = "a" THEN <<"b", "b">> ELSE <<"a">>]}

InitSeed ==
    /\ behaviour \in SeedBehaviours
    /\ initial_agent_id \in AgentIds
    /\ pc = "idle"
    /\ phase = "none"
    /\ max_steps = 0
    /\ first_budget = 0
    /\ queue = <<>>
    /\ history = <<>>
    /\ processed = 0
    /\ batch = <<>>
    /\ status = <<>>
    /\ results = <<>>
    /\ completion = <<>>
    /\ agent_locks = [g \in Registered |-> [locked |-> FALSE, loop |-> 0]]
    /\ running_loop = 0
    /\ result = NoResult
    /\ snapshot = NoState
    /\ approval_counter = 0
    /\ pending_approvals = EmptyMetadata
    /\ ArbiterIdle
    /\ NothingStored
    /\ callers = NoCallers
    /\ commit_arguments = EmptyMetadata
    /\ commits = <<>>
    /\ commit_outcome = NoOutcome
    /\ initial_metadata \in InitialMetadatas
    /\ supersteps = 0
    /\ RegistryUnused

NextSeed ==
    \/ \E N \in 0..MaxBudget : RunTask(N)
    \/ Superstep
    \/ \E i \in DOMAIN status : LockAcquire(i)
    \/ \E i \in DOMAIN status : HandleReturn(i)
    \/ GatherDone
    \/ Return

SeedSpec == InitSeed /\ [][NextSeed]_vars

\* A fresh run has just been started: nothing has been dispatched yet.
FreshRunStarted == phase = "run" /\ pc = "loop" /\ history = <<>> /\ processed = 0

\* C27 as stated: a fresh run starts with exactly one queued message, from
\* "user" to the task's initial agent with the task description, whose
\* metadata has task_id equal to the task's id and every entry of
\* initial_metadata.
C27_SeedCarriesTaskId ==
    FreshRunStarted =>
        /\ Len(queue) = 1
        /\ queue[1].sender = "user"
        /\ queue[1].recipient = initial_agent_id
        /\ queue[1].content = TaskDescription
        /\ queue[1].metadata.task_id = TaskId
        /\ \A k \in DOMAIN initial_metadata :
              queue[1].metadata[k] = initial_metadata[k]

\* C27 amended: the seed's metadata is every entry of initial_metadata, plus
\* task_id equal to the task's id when initial_metadata has no task_id of its
\* own; a task_id given in initial_metadata is the one the seed carries.
C27_SeedMergesInitialMetadata ==
    FreshRunStarted =>
        /\ Len(queue) = 1
        /\ queue[1].sender = "user"
        /\ queue[1].recipient = initial_agent_id
        /\ queue[1].content = TaskDescription
        /\ DOMAIN queue[1].metadata = DOMAIN initial_metadata \cup {"task_id"}
        /\ \A k \in DOMAIN initial_metadata :
              queue[1].metadata[k] = initial_metadata[k]
        /\ "task_id" \notin DOMAIN initial_metadata =>
              queue[1].metadata.task_id = TaskId

\* A run was started for a task whose initial metadata names another task.
C27_Witness ==
    /\ FreshRunStarted
    /\ initial_metadata = [task_id |-> "other", source |-> "cli"]
    /\ queue = <<AgentMessage("user", initial_agent_id, TaskDescription,
                              [task_id |-> "other", source |-> "cli"])>>

\* ------------------------------------------------------------------------
\* Specification of loading a damaged checkpoint
\* ------------------------------------------------------------------------

\* A state with one message pending, one in the history and one approval
\* request waiting.
StoredState ==
    WorkflowState("a", <<StoredMessage(2)>>, <<StoredMessage(1)>>, 1, 1,
                  [key \in {ApprovalId(1)} |->
                      ApprovalRequest("vcs_commit", "Commit changes",
                                      [tool |-> Str(<<"vcs_commit">>)])])

\* Values of each JSON type.
JsonValues ==
    {None, Number(1), Bool(TRUE), Str("s"), List(<<>>), Dict(EmptyMetadata)}

Remove(d, key) == [k \in DOMAIN d \ {key} |-> d[k]]

\* The object d with one field removed or given another value.
Damaged(d) ==
    {Remove(d, key) : key \in DOMAIN d}
        \cup {Put(d, key, v) : key \in DOMAIN d, v \in JsonValues}

\* The object d with its list of messages replaced by one damaged message.
DamagedMessage(d, field) ==
    {Put(d, field, List(<<Dict(m)>>)) : m \in Damaged(d[field].val[1].val)}
        \cup {Put(d, field, List(<<v>>)) : v \in JsonValues}

\* The object d with its approval request damaged.
DamagedApproval(d) ==
    LET key == ApprovalId(1)
        approvals == d.pending_approvals.val
    IN {Put(d, "pending_approvals", Dict(Put(approvals, key, Dict(r)))) :
            r \in Damaged(approvals[key].val)}
          \cup {Put(d, "pending_approvals", Dict(Put(approvals, key, v))) :
                   v \in JsonValues}

\* What the file may hold: the saved state, or that state damaged in one
\* place, or a JSON value that is not an object.
Payloads ==
    LET saved == ToDict(StoredState)
    IN {Dict(d) : d \in {saved} \cup Damaged(saved)
                        \cup DamagedMessage(saved, "pending_messages")
                        \cup DamagedMessage(saved, "history")
                        \cup DamagedApproval(saved)}
          \cup JsonValues

InitDecode ==
    /\ behaviour = [g \in Registered |-> <<>>]
    /\ initial_agent_id = "a"
    /\ pc = "idle"
    /\ phase = "none"
    /\ max_steps = 0
    /\ first_budget = 0
    /\ queue = <<>>
    /\ history = <<>>
    /\ processed = 0
    /\ batch = <<>>
    /\ status = <<>>
    /\ results = <<>>
    /\ completion = <<>>
    /\ agent_locks = [g \in Registered |-> [locked |-> FALSE, loop |-> 0]]
    /\ running_loop = 0
    /\ result = NoResult
    /\ snapshot = NoState
    /\ approval_counter = 0
    /\ pending_approvals = EmptyMetadata
    /\ ArbiterIdle
    /\ given = NoState
    /\ checkpoint_path = FALSE
    /\ checkpoint \in {[writes |-> 1, payload |-> p] : p \in Payloads}
    /\ loaded = NoLoad
    /\ callers = NoCallers
    /\ commit_arguments = EmptyMetadata
    /\ commits = <<>>
    /\ commit_outcome = NoOutcome
    /\ initial_metadata = EmptyMetadata
    /\ supersteps = 0
    /\ RegistryUnused

NextDecode == LoadStateCall

DecodeSpec == InitDecode /\ [][NextDecode]_vars

\* ------------------------------------------------------------------------
\* Claims about damaged checkpoints
\* ------------------------------------------------------------------------

\* The JSON object has the field, with a value of the JSON type.
HasField(object, field, type) ==
    field \in DOMAIN object /\ object[field].type = type

WellFormedMessage(item) ==
    /\ item.type = "dict"
    /\ HasField(item.val, "sender", "str")
    /\ HasField(item.val, "recipient", "str")
    /\ HasField(item.val, "content", "str")
    /\ HasField(item.val, "metadata", "dict")

WellFormedApproval(item) ==
    /\ item.type = "dict"
    /\ HasField(item.val, "action", "str")
    /\ HasField(item.val, "description", "str")
    /\ HasField(item.val, "metadata", "dict")

\* A JSON object with every required field, each of its JSON type.
WellFormedPayload(payload) ==
    /\ payload.type = "dict"
    /\ HasField(payload.val, "task_id", "str")
    /\ HasField(payload.val, "task_description", "str")
    /\ HasField(payload.val, "initial_agent_id", "str")
    /\ HasField(payload.val, "messages_processed", "int")
    /\ HasField(payload.val, "approval_counter", "int")
    /\ HasField(payload.val, "pending_messages", "list")
    /\ HasField(payload.val, "history", "list")
    /\ HasField(payload.val, "pending_approvals", "dict")
    /\ \A i \in DOMAIN payload.val.pending_messages.val :
          WellFormedMessage(payload.val.pending_messages.val[i])
    /\ \A i \in DOMAIN payload.val.history.val :
          WellFormedMessage(payload.val.history.val[i])
    /\ \A key \in DOMAIN payload.val.pending_approvals.val :
          WellFormedApproval(payload.val.pending_approvals.val[key])

\* C28: loading a file whose payload is not a JSON object, or lacks a required
\* field, or has a field of the wrong JSON type at top level, in a message or
\* in an approval request, raises OrchestratorError and yields no state.
C28_MalformedPayloadRaises ==
    (loaded # NoLoad /\ ~WellFormedPayload(checkpoint.payload)) =>
        /\ loaded.kind = "error"
        /\ loaded.state = NoState

\* ------------------------------------------------------------------------
\* Claims about the approval round trip and the scheduler
\* ------------------------------------------------------------------------

\* C31: a call of request_approval leaves the pending queue, the history, the
\* processed count and the position of the run as they were, so the proxy's
\* responses are neither enqueued nor recorded in the history.
C31_RoundTripLeavesSchedulerAlone ==
    [][(calls_made' # calls_made /\ last_call'.op = "request_approval") =>
          /\ queue' = queue
          /\ history' = history
          /\ processed' = processed
          /\ batch' = batch
          /\ pc' = pc]_vars

\* The proxy answered a request made after a run that halted with messages
\* still queued.
C31_Witness ==
    /\ last_call.op = "request_approval"
    /\ last_call.responses # <<>>
    /\ proxy_calls # <<>>
    /\ pc = "returned"
    /\ queue # <<>>
    /\ history # <<>>

\* C32: a run that returns reports completed = true exactly when the queue
\* is empty, and when completed is false the count has reached or passed
\* max_steps with messages still queued; a run that raises does so for an
\* unknown recipient or a lock of another event loop, never for its budget.
C32_TwoNormalOutcomes ==
    /\ pc = "returned" =>
          /\ result.kind = "result"
          /\ result.completed <=> queue = <<>>
          /\ result.messages_processed = processed
          /\ ~result.completed => (processed >= max_steps /\ queue # <<>>)
    /\ pc = "raised" =>
          \/ result = RuntimeError(DifferentLoop)
          \/ \E i \in DOMAIN batch :
                /\ batch[i].recipient \in Unregistered
                /\ result = OrchestratorError(UnknownAgent(batch[i].recipient))

\* A fresh run has halted past its budget with messages still queued.
C32_Witness ==
    /\ FreshRunReturned
    /\ ~result.completed
    /\ queue # <<>>
    /\ max_steps >= 2
    /\ processed > max_steps

\* A resumed run has just been started from the snapshot and has not
\* dispatched anything yet.
ResumeStarted ==
    /\ phase = "resumed"
    /\ pc = "loop"
    /\ history = snapshot.history
    /\ processed = snapshot.messages_processed
    /\ queue = snapshot.pending_messages

\* C33: resume_task(state, max_steps = M) of a state with messages queued
\* starts by dispatching a superstep when M > state.messages_processed, and
\* when M <= state.messages_processed it dispatches nothing and returns
\* completed = false with the state's history and count.
C33_ResumeNeedsLargerBudget ==
    [][(ResumeStarted /\ queue # <<>> /\ pc' # pc) =>
          IF max_steps > snapshot.messages_processed
          THEN /\ batch' = queue
               /\ history' = history \o queue
               /\ pc' \in {"gather", "raised"}
          ELSE /\ pc' = "returned"
               /\ result' = TaskResult(FALSE, snapshot.messages_processed,
                                       snapshot.history)
               /\ history' = history
               /\ queue' = queue]_vars

\* A halted run was resumed with a larger budget and has gone on past the
\* snapshot.
C33_Witness ==
    /\ phase = "resumed"
    /\ pc = "returned"
    /\ snapshot.pending_messages # <<>>
    /\ max_steps > snapshot.messages_processed
    /\ Len(history) > Len(snapshot.history)
    /\ processed > snapshot.messages_processed

\* ------------------------------------------------------------------------
\* The tool registry
\* ------------------------------------------------------------------------

MaxExecutes == 2

\* Two tool objects for each of two names.
ToolInstances == {[name |-> n, id |-> k] : n \in {"run_command", "vcs_commit"}, k \in 1..2}

ToolRegistrationError(name) == <<"Tool '", name, "' is already registered">>

Ref(id) == [type |-> "ref", val |-> id]

DictObject(entries) == [kind |-> "dict", entries |-> entries, items |-> <<>>]

ListObject(items) == [kind |-> "list", entries |-> [k \in {} |-> ""], items |-> items]

\* The caller's arguments: object 1, a dict with a string and a list (object 2).
CallerHeap ==
    <<DictObject([command |-> Str(<<"ls">>), paths |-> Ref(2)]),
      ListObject(<<"src">>)>>

\* What the tool does to the dict it was handed.
ToolMutations == {"nothing", "set_key", "pop_key", "append_nested"}

Mutate(objects, id, does) ==
    IF does = "set_key"
    THEN [objects EXCEPT ![id].entries = Put(@, "approved", Bool(TRUE))]
    ELSE IF does = "pop_key"
    THEN [objects EXCEPT ![id].entries = [k \in DOMAIN @ \ {"command"} |-> @[k]]]
    ELSE IF does = "append_nested"
    THEN [objects EXCEPT ![objects[id].entries.paths.val].items = Append(@, "tmp")]
    ELSE objects

\* dict(arguments): a new dict with the entries of the given one.
PassArguments(objects, id) ==
    [objects |-> Append(objects, DictObject(objects[id].entries)),
     id |-> Len(objects) + 1]

\* A registration that replaces the tool registered under the name.
RegisterOverwriting(tool) ==
    /\ tools' = Put(tools, tool.name, tool)
    /\ last_register' = [kind |-> "registered", tool |-> tool, error |-> <<>>]
    /\ UNCHANGED <<runVars, gateVars, toolVars, stateVars, callVars, vcsVars, taskVars,
                   heap, passed, executed>>

\* ToolRegistry.register(tool)
Register(tool) ==
    /\ IF tool.name \in DOMAIN tools
       THEN /\ last_register' = [kind |-> "error", tool |-> tool,
                                 error |-> ToolRegistrationError(tool.name)]
            /\ tools' = tools
       ELSE /\ tools' = Put(tools, tool.name, tool)
            /\ last_register' = [kind |-> "registered", tool |-> tool, error |-> <<>>]
    /\ UNCHANGED <<runVars, gateVars, toolVars, stateVars, callVars, vcsVars, taskVars,
                   heap, passed, executed>>

\* ToolRegistry.execute(name, arguments) with the caller's dict, object 1; the
\* tool then does with its argument what it likes.
Execute(name, does) ==
    /\ executed < MaxExecutes
    /\ executed' = executed + 1
    /\ IF name \notin DOMAIN tools
       THEN UNCHANGED <<heap, passed>>
       ELSE LET handed == PassArguments(heap, 1)
            IN /\ heap' = Mutate(handed.objects, handed.id, does)
               /\ passed' = handed.id
    /\ UNCHANGED <<runVars, gateVars, toolVars, stateVars, callVars, vcsVars, taskVars,
                   tools, last_register>>

InitRegistry ==
    /\ behaviour = [g \in Registered |-> <<>>]
    /\ initial_agent_id = "a"
    /\ pc = "idle"
    /\ phase = "none"
    /\ max_steps = 0
    /\ first_budget = 0
    /\ queue = <<>>
    /\ history = <<>>
    /\ processed = 0
    /\ batch = <<>>
    /\ status = <<>>
    /\ results = <<>>
    /\ completion = <<>>
    /\ agent_locks = [g \in Registered |-> [locked |-> FALSE, loop |-> 0]]
    /\ running_loop = 0
    /\ result = NoResult
    /\ snapshot = NoState
    /\ approval_counter = 0
    /\ pending_approvals = EmptyMetadata
    /\ ArbiterIdle
    /\ NothingStored
    /\ callers = NoCallers
    /\ commit_arguments = EmptyMetadata
    /\ commits = <<>>
    /\ commit_outcome = NoOutcome
    /\ initial_metadata = EmptyMetadata
    /\ supersteps = 0
    /\ tools = [k \in {} |-> ""]
    /\ last_register = [kind |-> "none", tool |-> [name |-> "", id |-> 0], error |-> <<>>]
    /\ heap = CallerHeap
    /\ passed = 0
    /\ executed = 0

NextRegistry ==
    \/ \E tool \in ToolInstances : Register(tool)
    \/ \E name \in {"run_command", "vcs_commit"}, does \in ToolMutations :
          Execute(name, does)

RegistrySpec == InitRegistry /\ [][NextRegistry]_vars

\* ------------------------------------------------------------------------
\* Claims about the tool registry
\* ------------------------------------------------------------------------

\* C34: every tool is registered under its own name, so names are unique;
\* registering a name that is present raises ToolRegistrationError and the
\* tool registered before stays; the dict of the caller of execute keeps its
\* entries whatever the tool does with the dict it is handed.
C34_RegistryKeepsNamesAndArguments ==
    [][/\ \A n \in DOMAIN tools' : tools'[n].name = n
       /\ \A n \in DOMAIN tools : n \in DOMAIN tools' /\ tools'[n] = tools[n]
       /\ (last_register' # last_register /\ last_register'.tool.name \in DOMAIN tools) =>
             /\ last_register'.kind = "error"
             /\ last_register'.error = ToolRegistrationError(last_register'.tool.name)
       /\ heap'[1] = heap[1]
       /\ executed' # executed /\ passed' # 0 => passed' # 1]_vars

\* A second tool object was refused for a name already taken, and a tool has
\* changed the dict it was handed while the caller's dict is as it was.
C34_Witness ==
    /\ DOMAIN tools = {"run_command", "vcs_commit"}
    /\ last_register.kind = "error"
    /\ tools[last_register.tool.name] # last_register.tool
    /\ passed = 3
    /\ heap[3].entries # heap[1].entries
    /\ heap[1] = CallerHeap[1]

\* ------------------------------------------------------------------------
\* Specification of runs whose handlers always return
\* ------------------------------------------------------------------------

\* The steps of a run in progress: the loop and the handlers it awaits.
RunSteps ==
    \/ Superstep
    \/ \E i \in DOMAIN status : LockAcquire(i)
    \/ \E i \in DOMAIN status : HandleReturn(i)
    \/ GatherDone
    \/ Return

\* Runs and resumed runs of the seed behaviours in which the event loop keeps
\* going and every handle call returns.
FairSpec == InitSeed /\ [][Next]_vars /\ WF_vars(RunSteps)

\* ------------------------------------------------------------------------
\* Claims about termination
\* ------------------------------------------------------------------------

\* The count the run in progress started at.
StartCount == IF phase = "resumed" THEN snapshot.messages_processed ELSE 0

RunInProgress == pc \in {"loop", "gather"}

RunEnded == pc \in {"returned", "raised"}

\* Every superstep dispatches at least one message and its collection
\* raises the count.
SuperstepsAdvance ==
    [][/\ (pc = "loop" /\ pc' \in {"gather", "raised"}) =>
             (Len(batch') >= 1 /\ supersteps' = supersteps + 1)
       /\ (pc = "gather" /\ pc' = "loop") => processed' > processed]_vars

\* C35 as stated: a run whose handle calls return terminates; every
\* superstep dispatches at least one message and raises the count; a run
\* started at count p performs at most max_steps - p supersteps; and the final
\* count is below max_steps plus the size of the last batch the run
\* dispatched.
C35_RunsTerminateWithinBudget ==
    /\ RunInProgress ~> RunEnded
    /\ SuperstepsAdvance
    /\ [](RunInProgress \/ RunEnded => supersteps <= max_steps - StartCount)
    /\ [](pc = "returned" => result.messages_processed < max_steps + Len(batch))

\* C35 amended: the same, with the number of supersteps bounded by
\* max_steps - p only when that is positive and by zero otherwise, and the
\* bound on the final count only for a run that dispatched a superstep; a run
\* that dispatched none returns the count it started with.
C35_RunsTerminate ==
    /\ RunInProgress ~> RunEnded
    /\ SuperstepsAdvance
    /\ [](RunInProgress \/ RunEnded =>
             supersteps <= IF max_steps > StartCount THEN max_steps - StartCount ELSE 0)
    /\ [](pc = "returned" =>
             IF supersteps >= 1
             THEN result.messages_processed < max_steps + Len(batch)
             ELSE result.messages_processed = StartCount)

\* A resumed run has ended after two supersteps, past its budget by less than
\* its last batch.
C35_Witness ==
    /\ phase = "resumed"
    /\ pc = "returned"
    /\ supersteps >= 1
    /\ StartCount >= 1
    /\ processed > max_steps
    /\ processed < max_steps + Len(batch)

\* ------------------------------------------------------------------------
\* Claims about the count and the history
\* ------------------------------------------------------------------------

\* By how much the count of the state the run started from exceeds the length
\* of its history; zero for the state of a fresh run.
RestoredSurplus == loaded.state.messages_processed - Len(loaded.state.history)

\* C36: throughout a run the count exceeds the length of the history by what
\* it did in the state the run started from, which is nothing for a fresh
\* run: at every superstep boundary, in every checkpoint the run writes and
\* in the TaskResult it returns.
C36_CountFollowsHistory ==
    phase = "resumed" =>
        /\ pc \in {"loop", "returned"} =>
              processed - Len(history) = RestoredSurplus
        /\ pc = "returned" =>
              result.messages_processed - Len(result.history) = RestoredSurplus
        /\ (checkpoint_path /\ checkpoint.writes >= 2) =>
              LET written == LoadState(checkpoint.payload).state
              IN written.messages_processed - Len(written.history) = RestoredSurplus
        /\ (loaded.state.history = <<>> /\ loaded.state.messages_processed = 0) =>
              (pc \in {"loop", "returned"} => processed = Len(history))

\* A run from a state whose count is one more than its history has written
\* two checkpoints and returned.
C36_Witness ==
    /\ phase = "resumed"
    /\ pc = "returned"
    /\ RestoredSurplus = 1
    /\ checkpoint_path
    /\ checkpoint.writes >= 3
    /\ Len(result.history) > Len(loaded.state.history)

\* Handler i of the batch has returned.
Completed(i) == \E p \in DOMAIN completion : completion[p] = i

\* C37: messages of one batch for the same recipient are handled in queue
\* order: the handlers return in the order of the batch, and the handler for
\* a later message starts only when those for the earlier ones have
\* returned, whatever the dispatches to other recipients do meanwhile.
C37_SameRecipientInQueueOrder ==
    pc = "gather" =>
        /\ \A p, q \in DOMAIN completion :
              (/\ batch[completion[p]].recipient = batch[completion[q]].recipient
               /\ completion[p] < completion[q]) => p < q
        /\ \A i, j \in DOMAIN status :
              (/\ i < j
               /\ batch[i].recipient = batch[j].recipient
               /\ status[j] = "running" \/ Completed(j)) => Completed(i)

\* Three messages for b are in a batch with one for a: the first two have
\* been handled in order, a's after the first of them, and the third is being
\* handled.
C37_Witness ==
    /\ pc = "gather"
    /\ \E i, j, k, l \in DOMAIN status :
          /\ i < j /\ j < k
          /\ batch[i].recipient = "b" /\ batch[j].recipient = "b"
          /\ batch[k].recipient = "b" /\ batch[l].recipient = "a"
          /\ completion = <<i, l, j>>
          /\ status[k] = "running"

\* ------------------------------------------------------------------------
\* The built-in agents
\* ------------------------------------------------------------------------

\* The default ids of the planner, coder, tester and reviewer.
BuiltInAgents == {"planner", "coder", "tester", "reviewer"}

\* The largest budget of a run of the built-in agents: one more than
\* MaxBudget, so that the third superstep, in which agents get several
\* messages at once, is dispatched.
MaxPipelineBudget == MaxBudget + 1

\* A planner that keeps its plan to itself.
PlannerHandleMessageSilent(message) == <<>>

\* PlannerAgent.handle_message: the plan goes to the coder, the tester and the
\* reviewer, whatever the message was.
PlannerHandleMessage(message) ==
    <<AgentMessage("planner", "coder", "Implement the following plan", [steps |-> "plan"]),
      AgentMessage("planner", "tester", "Prepare to run tests", [steps |-> "plan"]),
      AgentMessage("planner", "reviewer", "Review changes", [steps |-> "plan"])>>

\* CodingAgent.handle_message, when it returns: the summary of the files it
\* wrote goes to the reviewer and to the planner.
CoderHandleMessage(message) ==
    <<AgentMessage("coder", "reviewer", "Updated files", [files |-> "modified"]),
      AgentMessage("coder", "planner", "Updated files", [files |-> "modified"])>>

\* TesterAgent.handle_message: the test summary goes to the reviewer and to
\* the planner.
TesterHandleMessage(message) ==
    <<AgentMessage("tester", "reviewer", "Test summary", [succeeded |-> "summary"]),
      AgentMessage("tester", "planner", "Test summary", [succeeded |-> "summary"])>>

\* ReviewerAgent.handle_message: the decision goes to the planner, and to the
\* coder as well unless the review approved the changes.
ReviewerHandleMessage(message, approved) ==
    LET summary == [approved |-> IF approved THEN "true" ELSE "false",
                    comments |-> "comments"]
        messages == <<AgentMessage("reviewer", "planner", "comments", summary)>>
    IN IF approved
       THEN messages
       ELSE Append(messages, AgentMessage("reviewer", "coder", "comments", summary))

\* handle_message of the agent registered under a built-in id; approved is
\* the decision the reviewer's model comes to.
BuiltInHandleMessage(agent, message, approved) ==
    CASE agent = "planner" -> PlannerHandleMessage(message)
      [] agent = "coder" -> CoderHandleMessage(message)
      [] agent = "tester" -> TesterHandleMessage(message)
      [] agent = "reviewer" -> ReviewerHandleMessage(message, approved)

\* handle_message_async of task i returns the answer of a built-in agent and
\* releases the agent's lock.
BuiltInHandleReturn(i, approved) ==
    /\ pc = "gather"
    /\ status[i] = "running"
    /\ approved = TRUE \/ batch[i].recipient = "reviewer"
    /\ results' = [results EXCEPT
                      ![i] = BuiltInHandleMessage(batch[i].recipient, batch[i], approved)]
    /\ status' = [status EXCEPT ![i] = "done"]
    /\ completion' = Append(completion, i)
    /\ agent_locks' = [agent_locks EXCEPT ![batch[i].recipient].locked = FALSE]
    /\ UNCHANGED <<behaviour, initial_agent_id, pc, phase, max_steps, first_budget,
                   queue, history, processed, batch, running_loop, result, snapshot,
                   gateVars, toolVars, stateVars, callVars, vcsVars, taskVars, registryVars>>

\* An orchestrator with the four built-in agents registered, about to run a
\* task that starts at the planner.
InitPipeline ==
    /\ behaviour = [g \in BuiltInAgents |-> <<>>]
    /\ initial_agent_id = "planner"
    /\ pc = "idle"
    /\ phase = "none"
    /\ max_steps = 0
    /\ first_budget = 0
    /\ queue = <<>>
    /\ history = <<>>
    /\ processed = 0
    /\ batch = <<>>
    /\ status = <<>>
    /\ results = <<>>
    /\ completion = <<>>
    /\ agent_locks = [g \in BuiltInAgents |-> [locked |-> FALSE, loop |-> 0]]
    /\ running_loop = 0
    /\ result = NoResult
    /\ snapshot = NoState
    /\ approval_counter = 0
    /\ pending_approvals = EmptyMetadata
    /\ ArbiterIdle
    /\ NothingStored
    /\ callers = [g \in BuiltInAgents |-> [at |-> "idle", seen |-> 0, ids |-> <<>>]]
    /\ commit_arguments = EmptyMetadata
    /\ commits = <<>>
    /\ commit_outcome = NoOutcome
    /\ initial_metadata = EmptyMetadata
    /\ supersteps = 0
    /\ RegistryUnused

\* A run of the built-in agents: every handler either returns its messages
\* or raises (a model or tool failure, a CodingAgentError).
NextPipeline ==
    \/ \E N \in 0..MaxPipelineBudget : RunTask(N)
    \/ Superstep
    \/ \E i \in DOMAIN status : LockAcquire(i)
    \/ \E i \in DOMAIN status : \E approved \in BOOLEAN : BuiltInHandleReturn(i, approved)
    \/ \E i \in DOMAIN status : HandleRaise(i)
    \/ GatherDone
    \/ Return

PipelineSpec == InitPipeline /\ [][NextPipeline]_vars

ApprovalGivenStates ==
    {g \in GivenStates :
        /\ g.task_id = TaskId
        /\ g.initial_agent_id = "a"
        /\ g.history = <<>>
        /\ g.messages_processed = 0
        /\ Len(g.pending_messages) = 1}

\* What the proxy answers: nothing, a decision for another request, or an
\* approval of the request.
ApprovalReplies ==
    {<<>>,
     <<Reply(FALSE, Bool(TRUE), Str(<<"tester">>), None)>>,
     <<StateReply>>}

\* An orchestrator under approval-required, with or without the proxy, and a
\* saved state it may run from.
InitApprovalState ==
    /\ behaviour = [g \in Registered |-> IF g = "a" THEN <<"b", "b">> ELSE <<>>]
    /\ initial_agent_id = "a"
    /\ pc = "idle"
    /\ phase = "none"
    /\ max_steps = 0
    /\ first_budget = 0
    /\ queue = <<>>
    /\ history = <<>>
    /\ processed = 0
    /\ batch = <<>>
    /\ status = <<>>
    /\ results = <<>>
    /\ completion = <<>>
    /\ agent_locks = [g \in Registered |-> [locked |-> FALSE, loop |-> 0]]
    /\ running_loop = 0
    /\ result = NoResult
    /\ snapshot = NoState
    /\ approval_counter = 0
    /\ pending_approvals = EmptyMetadata
    /\ policy = ApprovalPolicy("approval-required", FALSE, TRUE)
    /\ proxy_registered \in BOOLEAN
    /\ tool_calls = <<>>
    /\ proxy_calls = <<>>
    /\ last_call = NoCall
    /\ outcome = NoOutcome
    /\ calls_made = 0
    /\ given \in ApprovalGivenStates
    /\ given.approval_counter = 0 => given.pending_approvals = EmptyMetadata
    /\ DOMAIN given.pending_approvals \subseteq
          {ApprovalId(k) : k \in 1..given.approval_counter}
    /\ checkpoint_path = FALSE
    /\ checkpoint = NoFile
    /\ loaded = NoLoad
    /\ callers = NoCallers
    /\ commit_arguments = EmptyMetadata
    /\ commits = <<>>
    /\ commit_outcome = NoOutcome
    /\ initial_metadata = EmptyMetadata
    /\ supersteps = 0
    /\ RegistryUnused

NextApprovalState ==
    \/ SaveStateCall
    \/ LoadStateCall
    \/ \E M \in 0..MaxBudget, path \in BOOLEAN : RunTaskAsyncCall(M, path)
    \/ Superstep
    \/ \E i \in DOMAIN status : LockAcquire(i)
    \/ \E i \in DOMAIN status : HandleReturn(i)
    \/ GatherDone
    \/ Return
    \/ SnapshotResumed
    \/ \E replies \in (IF proxy_registered THEN ApprovalReplies ELSE {<<>>}) :
          RequestApprovalCall(StateRequest, replies)

ApprovalStateSpec == InitApprovalState /\ [][NextApprovalState]_vars

\* ------------------------------------------------------------------------
\* Claims about failed approval requests
\* ------------------------------------------------------------------------

\* The last call was a request_approval that failed under approval-required.
ApprovalFailed ==
    /\ last_call.op = "request_approval"
    /\ outcome.kind = "error"
    /\ policy.mode = "approval-required"

\* The failed call counted its id and recorded its request.
FailedCallRecords ==
    [][(calls_made' # calls_made /\ ApprovalFailed') =>
          /\ approval_counter' = approval_counter + 1
          /\ last_call'.request_id = ApprovalId(approval_counter')
          /\ last_call'.request_id \notin DOMAIN pending_approvals
          /\ last_call'.request_id \in DOMAIN pending_approvals'
          /\ pending_approvals'[last_call'.request_id] = last_call'.request
          /\ SnapshotOf(history, processed)'.approval_counter = approval_counter'
          /\ SnapshotOf(history, processed)'.pending_approvals = pending_approvals']_vars

\* The run from a saved state starts: counter and pending approvals are set
\* to the state's.
RestoreStep == phase = "none" /\ phase' = "resumed"

\* C39 as stated: a request_approval call that fails under approval-required
\* leaves the counter advanced by one and the request recorded under its id,
\* and every snapshot taken later on that orchestrator carries both.
C39_FailedRequestInEveryLaterSnapshot ==
    /\ FailedCallRecords
    /\ [][(ApprovalFailed /\ snapshot' # snapshot) =>
             /\ \E n \in 1..snapshot'.approval_counter :
                   last_call.request_id = ApprovalId(n)
             /\ last_call.request_id \in DOMAIN snapshot'.pending_approvals
             /\ snapshot'.pending_approvals[last_call.request_id] = last_call.request]_vars

\* C39 amended: the failed call leaves the counter advanced and the request
\* recorded; no later step but the start of a run from a saved state lowers
\* the counter or drops or changes a recorded request, that start replaces
\* both by what the state holds, and a snapshot carries the counter and the
\* map as they are when it is taken.
C39_FailedRequestRecordedUntilRestore ==
    /\ FailedCallRecords
    /\ [][~RestoreStep =>
             /\ approval_counter' >= approval_counter
             /\ \A id \in DOMAIN pending_approvals :
                   /\ id \in DOMAIN pending_approvals'
                   /\ pending_approvals'[id] = pending_approvals[id]]_vars
    /\ [][RestoreStep =>
             /\ approval_counter' = loaded.state.approval_counter
             /\ pending_approvals' = loaded.state.pending_approvals]_vars
    /\ [][snapshot' # snapshot =>
             /\ snapshot'.approval_counter = approval_counter
             /\ snapshot'.pending_approvals = pending_approvals]_vars

\* A snapshot taken after a failed request, with no run from a saved state
\* in between, lists the request.
C39_Witness ==
    /\ ApprovalFailed
    /\ snapshot # NoState
    /\ last_call.request_id \in DOMAIN snapshot.pending_approvals
    /\ snapshot.pending_approvals[last_call.request_id] = last_call.request
    /\ snapshot.approval_counter = approval_counter

\* ------------------------------------------------------------------------
\* Specification of commits asked through the approval gate
\* ------------------------------------------------------------------------

\* ToolRegistry.execute("vcs_commit", arguments) with the commit tool
\* registered: the tool gets a copy of the arguments; what it returns or
\* raises, the invocation, and the commits the service was asked for.
RegistryExecuteCommit(arguments, made, does) ==
    LET done == VCSCommitExecute(arguments, made, does)
    IN [outcome |-> done.outcome, returned |-> done.outcome,
        invoked |-> <<[name |-> "vcs_commit", arguments |-> arguments]>>,
        commits |-> done.commits]

\* execute_tool("vcs_commit", arguments): the guard of the arbiter, then the
\* registry; a ToolExecutionError becomes an OrchestratorError, any other
\* exception of the tool goes on as it is.
ExecuteCommitOutcome(arguments, made, does) ==
    IF RequiresApproval(policy, "vcs_commit")
    THEN [outcome |-> ToolError(ApprovalRequiredError("vcs_commit")),
          returned |-> NoOutcome, invoked |-> <<>>, commits |-> <<>>]
    ELSE LET done == RegistryExecuteCommit(arguments, made, does)
         IN IF done.outcome.kind = "tool_execution_error"
            THEN [done EXCEPT !.outcome = ToolError(done.outcome.error)]
            ELSE done

\* A gate that hands on the approval of the system when the policy asks for
\* none.
CommitWithApprovalInjecting(arguments, explicit, replies, does) ==
    /\ pc \in {"idle", "returned"}
    /\ calls_made < MaxCalls
    /\ Len(commits) < MaxCommitCalls
    /\ calls_made' = calls_made + 1
    /\ IF RequiresApproval(policy, "vcs_commit")
       THEN LET request == IF explicit THEN ExplicitRequest("vcs_commit")
                           ELSE DefaultRequest("vcs_commit", arguments)
                asked == RequestApproval(request, replies)
                done == ExecuteCommitOutcome(
                            ApprovedArguments(arguments, asked.decision.approver),
                            Len(commits), does)
                ran == asked.kind # "error" /\ asked.decision.approved
            IN /\ approval_counter' = asked.counter
               /\ pending_approvals' = asked.pending
               /\ proxy_calls' = proxy_calls \o asked.sent
               /\ outcome' = IF asked.kind = "error" THEN ToolError(asked.error)
                             ELSE IF ~asked.decision.approved
                             THEN ToolResult("vcs_commit", FALSE, EmptyMetadata,
                                             RejectionError(asked.decision.approver,
                                                            asked.decision.notes))
                             ELSE done.outcome
               /\ tool_calls' = IF ran THEN tool_calls \o done.invoked ELSE tool_calls
               /\ commits' = IF ran THEN commits \o done.commits ELSE commits
               /\ commit_arguments' = IF ran /\ done.invoked # <<>>
                                      THEN done.invoked[1].arguments
                                      ELSE commit_arguments
               /\ commit_outcome' = IF ran /\ done.invoked # <<>>
                                    THEN done.returned ELSE commit_outcome
               /\ last_call' = [op |-> "execute_tool_with_approval",
                                name |-> "vcs_commit",
                                arguments |-> arguments, gated |-> TRUE,
                                decision |-> asked.decision,
                                invoked |-> Len(tool_calls') - Len(tool_calls),
                                required |-> TRUE, request |-> request,
                                request_id |-> asked.request_id,
                                responses |-> asked.responses]
       ELSE LET done == ExecuteCommitOutcome(ApprovedArguments(arguments, <<"system">>), Len(commits), does)
            IN /\ outcome' = done.outcome
               /\ tool_calls' = tool_calls \o done.invoked
               /\ commits' = commits \o done.commits
               /\ commit_arguments' = done.invoked[1].arguments
               /\ commit_outcome' = done.returned
               /\ last_call' = [op |-> "execute_tool_with_approval",
                                name |-> "vcs_commit",
                                arguments |-> arguments, gated |-> FALSE,
                                decision |-> NoDecision,
                                invoked |-> Len(done.invoked),
                                required |-> FALSE, request |-> NoRequest,
                                request_id |-> <<>>, responses |-> <<>>]
               /\ UNCHANGED <<gateVars, proxy_calls>>
    /\ UNCHANGED <<runVars, policy, proxy_registered, stateVars, callVars, taskVars,
                   registryVars>>

\* execute_tool_with_approval("vcs_commit", arguments, caller = Caller, request)
\* with the commit tool registered.
CommitWithApproval(arguments, explicit, replies, does) ==
    /\ pc \in {"idle", "returned"}
    /\ calls_made < MaxCalls
    /\ Len(commits) < MaxCommitCalls
    /\ calls_made' = calls_made + 1
    /\ IF RequiresApproval(policy, "vcs_commit")
       THEN LET request == IF explicit THEN ExplicitRequest("vcs_commit")
                           ELSE DefaultRequest("vcs_commit", arguments)
                asked == RequestApproval(request, replies)
                done == ExecuteCommitOutcome(
                            ApprovedArguments(arguments, asked.decision.approver),
                            Len(commits), does)
                ran == asked.kind # "error" /\ asked.decision.approved
            IN /\ approval_counter' = asked.counter
               /\ pending_approvals' = asked.pending
               /\ proxy_calls' = proxy_calls \o asked.sent
               /\ outcome' = IF asked.kind = "error" THEN ToolError(asked.error)
                             ELSE IF ~asked.decision.approved
                             THEN ToolResult("vcs_commit", FALSE, EmptyMetadata,
                                             RejectionError(asked.decision.approver,
                                                            asked.decision.notes))
                             ELSE done.outcome
               /\ tool_calls' = IF ran THEN tool_calls \o done.invoked ELSE tool_calls
               /\ commits' = IF ran THEN commits \o done.commits ELSE commits
               /\ commit_arguments' = IF ran /\ done.invoked # <<>>
                                      THEN done.invoked[1].arguments
                                      ELSE commit_arguments
               /\ commit_outcome' = IF ran /\ done.invoked # <<>>
                                    THEN done.returned ELSE commit_outcome
               /\ last_call' = [op |-> "execute_tool_with_approval",
                                name |-> "vcs_commit",
                                arguments |-> arguments, gated |-> TRUE,
                                decision |-> asked.decision,
                                invoked |-> Len(tool_calls') - Len(tool_calls),
                                required |-> TRUE, request |-> request,
                                request_id |-> asked.request_id,
                                responses |-> asked.responses]
       ELSE LET done == ExecuteCommitOutcome(arguments, Len(commits), does)
            IN /\ outcome' = done.outcome
               /\ tool_calls' = tool_calls \o done.invoked
               /\ commits' = commits \o done.commits
               /\ commit_arguments' = done.invoked[1].arguments
               /\ commit_outcome' = done.returned
               /\ last_call' = [op |-> "execute_tool_with_approval",
                                name |-> "vcs_commit",
                                arguments |-> arguments, gated |-> FALSE,
                                decision |-> NoDecision,
                                invoked |-> Len(done.invoked),
                                required |-> FALSE, request |-> NoRequest,
                                request_id |-> <<>>, responses |-> <<>>]
               /\ UNCHANGED <<gateVars, proxy_calls>>
    /\ UNCHANGED <<runVars, policy, proxy_registered, stateVars, callVars, taskVars,
                   registryVars>>

\* What a caller passes to the commit tool: a message or none, and approved
\* absent, true, false, 1 or "true", with or without an approver.
GateCommitArguments ==
    {d \in CommitArguments :
        /\ "stage_all" \notin DOMAIN d
        /\ "message" \in DOMAIN d => d.message = Str(<<"fix">>)
        /\ "approved" \in DOMAIN d =>
              d.approved \in {Bool(TRUE), Bool(FALSE), Number(1), Str(<<"true">>)}}

\* An orchestrator with any policy, with or without the proxy.
InitCommitGate ==
    /\ behaviour = [g \in Registered |-> <<>>]
    /\ initial_agent_id = "a"
    /\ pc = "idle"
    /\ phase = "none"
    /\ max_steps = 0
    /\ first_budget = 0
    /\ queue = <<>>
    /\ history = <<>>
    /\ processed = 0
    /\ batch = <<>>
    /\ status = <<>>
    /\ results = <<>>
    /\ completion = <<>>
    /\ agent_locks = [g \in Registered |-> [locked |-> FALSE, loop |-> 0]]
    /\ running_loop = 0
    /\ result = NoResult
    /\ snapshot = NoState
    /\ approval_counter = 0
    /\ pending_approvals = EmptyMetadata
    /\ policy \in Policies
    /\ proxy_registered \in BOOLEAN
    /\ tool_calls = <<>>
    /\ proxy_calls = <<>>
    /\ last_call = NoCall
    /\ outcome = NoOutcome
    /\ calls_made = 0
    /\ NothingStored
    /\ callers = NoCallers
    /\ commit_arguments = EmptyMetadata
    /\ commits = <<>>
    /\ commit_outcome = NoOutcome
    /\ initial_metadata = EmptyMetadata
    /\ supersteps = 0
    /\ RegistryUnused

NextCommitGate ==
    \E arguments \in GateCommitArguments :
       \E explicit \in (IF RequiresApproval(policy, "vcs_commit") THEN BOOLEAN ELSE {FALSE}),
          replies \in (IF RequiresApproval(policy, "vcs_commit") /\ proxy_registered
                       THEN ToolReplySeqs ELSE {<<>>}),
          does \in (IF RequiresApproval(policy, "vcs_commit")
                    THEN {"commit"} ELSE {"commit", "raise"}) :
          CommitWithApproval(arguments, explicit, replies, does)

CommitGateSpec == InitCommitGate /\ [][NextCommitGate]_vars

\* ------------------------------------------------------------------------
\* Claims about ungated calls through the approval gate
\* ------------------------------------------------------------------------

\* The caller's arguments carry approved = true.
CallerApproved(arguments) ==
    "approved" \in DOMAIN arguments /\ arguments.approved = Bool(TRUE)

\* C40: when the policy does not gate the tool, execute_tool_with_approval
\* hands the caller's arguments to the tool unchanged, adds neither approved
\* nor approver and contacts no proxy; so vcs_commit called through it in
\* autonomous mode, or with require_commit_approval = false, makes a commit
\* only if the caller itself supplied approved = true, and otherwise returns
\* success = false.
C40_UngatedCallPassesArgumentsUnchanged ==
    [][(calls_made' # calls_made /\ ~RequiresApproval(policy, "vcs_commit")) =>
          /\ tool_calls' = Append(tool_calls, [name |-> "vcs_commit",
                                               arguments |-> last_call'.arguments])
          /\ commit_arguments' = last_call'.arguments
          /\ proxy_calls' = proxy_calls
          /\ approval_counter' = approval_counter
          /\ pending_approvals' = pending_approvals
          /\ commits' # commits => CallerApproved(last_call'.arguments)
          /\ ~CallerApproved(last_call'.arguments) =>
                /\ outcome'.kind = "result"
                /\ ~outcome'.success
                /\ commits' = commits]_vars

\* In autonomous mode the tool was handed arguments without approved and
\* refused the commit.
C40_Witness ==
    /\ policy.mode = "autonomous"
    /\ last_call.op = "execute_tool_with_approval"
    /\ "approved" \notin DOMAIN last_call.arguments
    /\ "message" \in DOMAIN last_call.arguments
    /\ tool_calls # <<>>
    /\ "approved" \notin DOMAIN tool_calls[Len(tool_calls)].arguments
    /\ outcome = ToolResult("vcs_commit", FALSE, EmptyMetadata, CommitRequiresApproval)
    /\ commits = <<>>

====
